---- MODULE Spec2Model ----
(***************************************************************************)
(* Model of crew-controller-mcp: the Part 117 legality engine              *)
(* (LegalityEngine.validateDuty), the in-memory crew store                 *)
(* (CrewStateService) and the tools that read and write it.                *)
(*                                                                         *)
(* Units.  Every duration and every instant is an integer number of half   *)
(* hours, so that the 6.5 h and 5.5 h values of the source are exact.      *)
(* Instants count half hours from 00:00 UTC of day 0.  Money is in cents.  *)
(***************************************************************************)
EXTENDS Integers, Sequences, FiniteSets, TLC

VARIABLES crewStates, crewMembers, response

vars == <<crewStates, crewMembers, response>>

----------------------------------------------------------------------------
(* Bounds of the model *)

\* longest assignedFlights list a swap may still extend
MaxFlights == 1

----------------------------------------------------------------------------
(* Numbers and instants *)

\* h hours, in half hours
Hours(h) == 2 * h

\* the instant hh:mm (mm is 0 or 30) of day d
At(d, hh, mm) == Hours(24 * d + hh) + (mm \div 30)

\* the number that is not a number; outside the range of every instant and
\* every difference of instants the model produces
NaN == 0 - 1000000

\* new Date(s).getTime(): a timestamp string is kept as its instant, a
\* malformed one as NaN
getTime(s) == IF s = NaN THEN NaN ELSE s

\* a - b on numbers
Minus(a, b) == IF a = NaN \/ b = NaN THEN NaN ELSE a - b

\* a < b on numbers: false when either side is NaN
Less(a, b) == a # NaN /\ b # NaN /\ a < b

\* new Date(s).getUTCHours()
getUTCHours(s) == IF s = NaN THEN NaN ELSE (s \div 2) % 24

\* Array.prototype.includes on a list
Includes(list, x) == \E i \in 1..Len(list) : list[i] = x

\* { ...record, field: value }
withField(record, field, value) ==
  [f \in DOMAIN record \cup {field} |->
     IF f = field THEN value ELSE record[f]]

----------------------------------------------------------------------------
(* LegalityEngine.part117Limits, in hours *)

maxFlightDutyPeriod == 13
maxFlightTime == 9
minRestPeriod == 10
extendedRestPeriod == 12
maxFlightHours28Days == 100
maxFlightHours365Days == 1000

\* consecutiveDutyDays from which the extended rest applies
extendedRestDays == 3
\* first and last UTC hour of the circadian-low check
\* the window of the limits table, as instants of day 0
woclStart == At(0, 2, 0)
woclEnd == At(0, 6, 0)

woclFirstHour == 2
woclLastHour == 6
\* consecutiveDutyDays from which the fatigue advisory is raised
fatigueConsecutiveDays == 5
\* duty length, in hours, above which the long-duty advisory is raised
fatigueLongDutyHours == 11

----------------------------------------------------------------------------
(* LegalityEngine: the checks.  Each returns the list of what it found. *)

\* checkFlightDutyPeriod reading the flight hours in place of the duty hours
checkFlightDutyPeriodOnFlightHours(duty) ==
  LET fdpHours == duty.totalFlightHours
  IN  IF fdpHours > Hours(maxFlightDutyPeriod)
      THEN << [category |-> "part117", rule |-> "117.25(d)",
               description |-> "Flight duty period exceeds maximum allowed",
               severity |-> "blocking",
               currentValue |-> fdpHours,
               limitValue |-> Hours(maxFlightDutyPeriod)] >>
      ELSE << >>

checkFlightDutyPeriod(duty) ==
  LET fdpHours == duty.totalDutyHours
  IN  IF fdpHours > Hours(maxFlightDutyPeriod)
      THEN << [category |-> "part117", rule |-> "117.25(d)",
               description |-> "Flight duty period exceeds maximum allowed",
               severity |-> "blocking",
               currentValue |-> fdpHours,
               limitValue |-> Hours(maxFlightDutyPeriod)] >>
      ELSE << >>

\* checkFlightTime failing a flight time equal to the limit
checkFlightTimeInclusive(duty) ==
  LET flightHours == duty.totalFlightHours
  IN  IF flightHours >= Hours(maxFlightTime)
      THEN << [category |-> "part117", rule |-> "117.11(a)",
               description |-> "Flight time within duty period exceeds maximum",
               severity |-> "blocking",
               currentValue |-> flightHours,
               limitValue |-> Hours(maxFlightTime)] >>
      ELSE << >>

checkFlightTime(duty) ==
  LET flightHours == duty.totalFlightHours
  IN  IF flightHours > Hours(maxFlightTime)
      THEN << [category |-> "part117", rule |-> "117.11(a)",
               description |-> "Flight time within duty period exceeds maximum",
               severity |-> "blocking",
               currentValue |-> flightHours,
               limitValue |-> Hours(maxFlightTime)] >>
      ELSE << >>

\* requiredRestOf without the extended rest
requiredRestOfMinimum(crewState) == Hours(minRestPeriod)

\* the rest the crew member must have had before the proposed duty
requiredRestOf(crewState) ==
  IF crewState.consecutiveDutyDays >= extendedRestDays
  THEN Hours(extendedRestPeriod)
  ELSE Hours(minRestPeriod)

\* the rest between the end of the current state and the proposed start
restHoursOf(crewState, proposedDuty) ==
  Minus(getTime(proposedDuty.startTimeUtc), getTime(crewState.stateEndUtc))

\* checkRestRequirements raising its finding with severity warning
checkRestRequirementsAsWarning(crewState, proposedDuty) ==
  LET restHours == restHoursOf(crewState, proposedDuty)
      requiredRest == requiredRestOf(crewState)
  IN  IF Less(restHours, requiredRest)
      THEN << [category |-> "part117", rule |-> "117.25(b)",
               description |-> "Insufficient rest period between duties",
               severity |-> "warning",
               currentValue |-> restHours,
               limitValue |-> requiredRest] >>
      ELSE << >>

checkRestRequirements(crewState, proposedDuty) ==
  LET restHours == restHoursOf(crewState, proposedDuty)
      requiredRest == requiredRestOf(crewState)
  IN  IF Less(restHours, requiredRest)
      THEN << [category |-> "part117", rule |-> "117.25(b)",
               description |-> "Insufficient rest period between duties",
               severity |-> "blocking",
               currentValue |-> restHours,
               limitValue |-> requiredRest] >>
      ELSE << >>

\* checkCumulativeLimits failing a projected total equal to the cap
checkCumulativeLimitsInclusive(crewState, proposedDuty) ==
  LET projected28DayHours ==
        crewState.flightHoursMonth + proposedDuty.totalFlightHours
      projectedYearHours ==
        crewState.flightHoursYear + proposedDuty.totalFlightHours
  IN  (IF projected28DayHours >= Hours(maxFlightHours28Days)
       THEN << [category |-> "part117", rule |-> "117.23(b)",
                description |-> "28-day flight hour limit would be exceeded",
                severity |-> "blocking",
                currentValue |-> projected28DayHours,
                limitValue |-> Hours(maxFlightHours28Days)] >>
       ELSE << >>)
      \o
      (IF projectedYearHours >= Hours(maxFlightHours365Days)
       THEN << [category |-> "part117", rule |-> "117.23(b)",
                description |-> "365-day flight hour limit would be exceeded",
                severity |-> "blocking",
                currentValue |-> projectedYearHours,
                limitValue |-> Hours(maxFlightHours365Days)] >>
       ELSE << >>)

checkCumulativeLimits(crewState, proposedDuty) ==
  LET projected28DayHours ==
        crewState.flightHoursMonth + proposedDuty.totalFlightHours
      projectedYearHours ==
        crewState.flightHoursYear + proposedDuty.totalFlightHours
  IN  (IF projected28DayHours > Hours(maxFlightHours28Days)
       THEN << [category |-> "part117", rule |-> "117.23(b)",
                description |-> "28-day flight hour limit would be exceeded",
                severity |-> "blocking",
                currentValue |-> projected28DayHours,
                limitValue |-> Hours(maxFlightHours28Days)] >>
       ELSE << >>)
      \o
      (IF projectedYearHours > Hours(maxFlightHours365Days)
       THEN << [category |-> "part117", rule |-> "117.23(b)",
                description |-> "365-day flight hour limit would be exceeded",
                severity |-> "blocking",
                currentValue |-> projectedYearHours,
                limitValue |-> Hours(maxFlightHours365Days)] >>
       ELSE << >>)

checkWoclExposure(duty) ==
  LET dutyHour == getUTCHours(duty.startTimeUtc)
  IN  IF dutyHour # NaN /\ dutyHour >= woclFirstHour /\ dutyHour <= woclLastHour
      THEN << [category |-> "fatigue_risk", rule |-> "FRMS_WOCL",
               description |-> "Duty overlaps Window of Circadian Low",
               severity |-> "warning"] >>
      ELSE << >>

\* assessFatigueRisk raising the long-duty finding as blocking
assessFatigueRiskBlocking(crewState, proposedDuty) ==
  (IF crewState.consecutiveDutyDays >= fatigueConsecutiveDays
   THEN << [category |-> "fatigue_risk", rule |-> "FRMS_CONSECUTIVE_DUTY",
            description |-> "Crew has worked consecutive days",
            severity |-> "advisory"] >>
   ELSE << >>)
  \o
  (IF proposedDuty.totalDutyHours > Hours(fatigueLongDutyHours)
   THEN << [category |-> "fatigue_risk", rule |-> "FRMS_LONG_DUTY",
            description |-> "Duty period exceeds 11 hours",
            severity |-> "blocking"] >>
   ELSE << >>)

assessFatigueRisk(crewState, proposedDuty) ==
  (IF crewState.consecutiveDutyDays >= fatigueConsecutiveDays
   THEN << [category |-> "fatigue_risk", rule |-> "FRMS_CONSECUTIVE_DUTY",
            description |-> "Crew has worked consecutive days",
            severity |-> "advisory"] >>
   ELSE << >>)
  \o
  (IF proposedDuty.totalDutyHours > Hours(fatigueLongDutyHours)
   THEN << [category |-> "fatigue_risk", rule |-> "FRMS_LONG_DUTY",
            description |-> "Duty period exceeds 11 hours",
            severity |-> "advisory"] >>
   ELSE << >>)

\* violations.filter(v => v.severity === 'blocking')
blockingOf(violations) ==
  SelectSeq(violations, LAMBDA v : v.severity = "blocking")

\* violationsOf stopping at the first check that fails
violationsOfFirstFailure(crewState, proposedDuty, checkCategories) ==
  IF ~Includes(checkCategories, "part117") THEN << >>
  ELSE IF checkFlightDutyPeriod(proposedDuty) # << >>
  THEN checkFlightDutyPeriod(proposedDuty)
  ELSE IF checkFlightTime(proposedDuty) # << >>
  THEN checkFlightTime(proposedDuty)
  ELSE IF checkRestRequirements(crewState, proposedDuty) # << >>
  THEN checkRestRequirements(crewState, proposedDuty)
  ELSE checkCumulativeLimits(crewState, proposedDuty)

\* the violations list validateDuty builds
violationsOf(crewState, proposedDuty, checkCategories) ==
  IF Includes(checkCategories, "part117")
  THEN checkFlightDutyPeriod(proposedDuty)
       \o checkFlightTime(proposedDuty)
       \o checkRestRequirements(crewState, proposedDuty)
       \o checkCumulativeLimits(crewState, proposedDuty)
  ELSE << >>

\* the warnings list validateDuty builds
warningsOf(crewState, proposedDuty, checkCategories) ==
  (IF Includes(checkCategories, "part117")
   THEN checkWoclExposure(proposedDuty)
   ELSE << >>)
  \o
  (IF Includes(checkCategories, "fatigue_risk")
   THEN assessFatigueRisk(crewState, proposedDuty)
   ELSE << >>)

\* isLegalOf counting the violations of severity warning
isLegalOfWarnings(violations) ==
  Len(SelectSeq(violations, LAMBDA v : v.severity = "warning")) = 0

\* the verdict's legal flag
isLegalOf(violations) == Len(blockingOf(violations)) = 0

\* validateDuty failing a call that names a category it does not know
validateDutyStrict(crewState, proposedDuty, checkCategories) ==
  LET violations == violationsOf(crewState, proposedDuty, checkCategories)
      warnings == warningsOf(crewState, proposedDuty, checkCategories)
  IN  [isLegal |-> /\ isLegalOf(violations)
                   /\ \A i \in 1..Len(checkCategories) :
                        checkCategories[i] \in {"part117", "fatigue_risk"},
       violations |-> violations,
       warnings |-> warnings,
       checksPerformed |-> checkCategories]

validateDuty(crewState, proposedDuty, checkCategories) ==
  LET violations == violationsOf(crewState, proposedDuty, checkCategories)
      warnings == warningsOf(crewState, proposedDuty, checkCategories)
  IN  [isLegal |-> isLegalOf(violations),
       violations |-> violations,
       warnings |-> warnings,
       checksPerformed |-> checkCategories]

----------------------------------------------------------------------------
(* CrewStateService: the store.  crewStates lists the values of the Map in *)
(* insertion order; crewMembers is the Map from employeeId to member.      *)

\* the absent result of a lookup
Null == [isNull |-> TRUE]

\* position of the record of employeeId in a list of states, 0 when absent
indexOfState(states, employeeId) ==
  IF \E i \in 1..Len(states) : states[i].employeeId = employeeId
  THEN CHOOSE i \in 1..Len(states) : states[i].employeeId = employeeId
  ELSE 0

\* setState assigning the fields of the new record onto the stored one, so
\* that a field only the stored record has survives
setStateMerging(states, state) ==
  LET i == indexOfState(states, state.employeeId)
  IN  IF i = 0 THEN Append(states, state)
      ELSE [states EXCEPT ![i] =
              [f \in DOMAIN states[i] \cup DOMAIN state |->
                 IF f \in DOMAIN state THEN state[f] ELSE states[i][f]]]

\* Map.prototype.set on crewStates: an existing key keeps its position and
\* gets the new record, a new key is added at the end
setState(states, state) ==
  LET i == indexOfState(states, state.employeeId)
  IN  IF i = 0 THEN Append(states, state)
      ELSE [states EXCEPT ![i] = state]

\* Map.prototype.set on crewMembers
setMember(members, member) ==
  [id \in DOMAIN members \cup {member.employeeId} |->
     IF id = member.employeeId THEN member ELSE members[id]]

getCrewStatus(states, employeeId) ==
  LET i == indexOfState(states, employeeId)
  IN  IF i = 0 THEN Null ELSE states[i]

\* getCrewByState without its filter
getCrewByStateAny(states, stateType) == states

getCrewByState(states, stateType) ==
  SelectSeq(states, LAMBDA state : state.stateType = stateType)

\* the filter of findReplacementCrew on one reserve
matchesRequest(members, state, params) ==
  /\ state.employeeId \in DOMAIN members
  /\ members[state.employeeId].base = params.base
  /\ members[state.employeeId].position = params.position
  /\ params.aircraftType \in members[state.employeeId].aircraftTypes

\* the reserves findReplacementCrew evaluates, in Map order
reservesFor(states, members, params) ==
  SelectSeq(getCrewByState(states, "RESERVE"),
            LAMBDA state : matchesRequest(members, state, params))

\* the duty period findReplacementCrew proposes for a departure
proposedDutyFor(departureTimeUtc) ==
  [startTimeUtc |-> departureTimeUtc,
   endTimeUtc |-> getTime(departureTimeUtc) + Hours(5),
   reportTimeUtc |-> getTime(departureTimeUtc) - Hours(1),
   releaseTimeUtc |-> getTime(departureTimeUtc) + Hours(5) + 1,
   flights |-> << >>,
   totalDutyHours |-> Hours(6) + 1,
   totalFlightHours |-> Hours(5)]

\* money in cents; hours are half hours, so an hourly rate of r dollars is
\* 50 * r cents per half hour
calculateCrewCost(state, duty) ==
  LET payCredit == duty.totalFlightHours
      perDiem == duty.totalDutyHours * 125
      overtimePremium ==
        IF state.flightHoursMonth > Hours(75) THEN payCredit * 2500 ELSE 0
  IN  [payCredit |-> payCredit,
       perDiem |-> perDiem,
       deadheadCost |-> 0,
       hotelCost |-> 0,
       overtimePremium |-> overtimePremium,
       totalUsd |-> (payCredit * 5000) + perDiem + overtimePremium]

Max(a, b) == IF a >= b THEN a ELSE b
Min(a, b) == IF a <= b THEN a ELSE b

\* calculateRankScore clamping the penalties before it adds the bonuses
calculateRankScoreClampedEarly(state, legality, cost) ==
  LET penalized == 100
                   - Len(legality.warnings) * 5
                   - (IF cost.totalUsd > 100000 THEN 10 ELSE 0)
                   - (IF cost.overtimePremium > 0 THEN 15 ELSE 0)
      score == Max(0, Min(100, penalized))
               + (IF state.dutyHoursCumulative < Hours(20) THEN 10 ELSE 0)
               + (IF state.consecutiveDutyDays < 3 THEN 5 ELSE 0)
  IN  Max(0, Min(100, score))

calculateRankScore(state, legality, cost) ==
  LET score == 100
               - Len(legality.warnings) * 5
               - (IF cost.totalUsd > 100000 THEN 10 ELSE 0)
               - (IF cost.overtimePremium > 0 THEN 15 ELSE 0)
               + (IF state.dutyHoursCumulative < Hours(20) THEN 10 ELSE 0)
               + (IF state.consecutiveDutyDays < 3 THEN 5 ELSE 0)
  IN  Max(0, Min(100, score))

\* the candidate findReplacementCrew pushes for a legal reserve
candidateOf(reserve, members, departureTimeUtc) ==
  LET proposedDuty == proposedDutyFor(departureTimeUtc)
      legalityCheck ==
        validateDuty(reserve, proposedDuty, <<"part117", "fatigue_risk">>)
      cost == calculateCrewCost(reserve, proposedDuty)
  IN  [employeeId |-> members[reserve.employeeId].employeeId,
       legality |-> legalityCheck,
       logistics |-> [currentLocation |-> reserve.currentLocation,
                      positioningRequired |-> FALSE,
                      readyTimeUtc |-> departureTimeUtc,
                      travelTimeMinutes |-> 0],
       cost |-> cost,
       rankScore |-> calculateRankScore(reserve, legalityCheck, cost)]

\* the loop of findReplacementCrew: the legal reserves, in Map order
RECURSIVE candidatesOf(_, _, _)
candidatesOf(reserves, members, departureTimeUtc) ==
  IF reserves = << >> THEN << >>
  ELSE LET c == candidateOf(Head(reserves), members, departureTimeUtc)
           rest == candidatesOf(Tail(reserves), members, departureTimeUtc)
       IN  IF ~c.legality.isLegal THEN rest ELSE <<c>> \o rest

\* compareRank sorting by ascending score
compareRankAscending(a, b) == a.rankScore - b.rankScore

\* the comparator of the sort: negative when a goes before b
compareRank(a, b) == b.rankScore - a.rankScore

\* one step of a stable sort: c goes behind every element that does not
\* compare after it
insertSorted(sorted, c) ==
  LET keep == {i \in 1..Len(sorted) : compareRank(sorted[i], c) <= 0}
      n == IF keep = {} THEN 0
           ELSE CHOOSE i \in keep : \A j \in keep : j <= i
  IN  SubSeq(sorted, 1, n) \o <<c>> \o SubSeq(sorted, n + 1, Len(sorted))

\* Array.prototype.sort with compareRank (stable)
RECURSIVE sortByRank(_)
sortByRank(list) ==
  IF list = << >> THEN << >>
  ELSE insertSorted(sortByRank(SubSeq(list, 1, Len(list) - 1)),
                    list[Len(list)])

\* Array.prototype.slice(0, n)
slice0(list, n) ==
  IF n >= 0 THEN SubSeq(list, 1, Min(n, Len(list)))
  ELSE SubSeq(list, 1, Max(0, Len(list) + n))

\* the maxResults parameter with its default
maxResultsOf(params) ==
  IF "maxResults" \in DOMAIN params THEN params.maxResults ELSE 5

findReplacementCrew(states, members, params) ==
  LET reserves == reservesFor(states, members, params)
      candidates == candidatesOf(reserves, members, params.departureTimeUtc)
  IN  slice0(sortByRank(candidates), maxResultsOf(params))

\* findReplacementCrewThrows with the proposed duty built before the loop
findReplacementCrewThrowsBeforeLoop(states, members, params) ==
  getTime(params.departureTimeUtc) = NaN

\* CrewStateService.findReplacementCrew throws: the loop builds the proposed
\* duty of the first reserve that passed the filter, and toISOString raises
\* RangeError on a departure time that is not a date
findReplacementCrewThrows(states, members, params) ==
  /\ reservesFor(states, members, params) # << >>
  /\ getTime(params.departureTimeUtc) = NaN

----------------------------------------------------------------------------
(* tools/find-replacement-crew: the tool around the service *)

\* the includeDeadheadOptions parameter with its default
includeDeadheadOptionsOf(input) ==
  IF "includeDeadheadOptions" \in DOMAIN input
  THEN input.includeDeadheadOptions
  ELSE TRUE

\* hours of duty left under the 13-hour limit, as the tool reports them
calculateRemainingDuty(candidate) ==
  LET found == SelectSeq(candidate.legality.violations,
                         LAMBDA v : v.rule = "117.25(d)")
      currentDuty == IF found = << >> THEN 0 ELSE found[1].currentValue
  IN  Max(0, Hours(13) - currentDuty)

generateRecommendation(candidate) ==
  IF candidate.rankScore >= 90
  THEN "EXCELLENT: Optimal crew choice with no concerns"
  ELSE IF candidate.rankScore >= 75
  THEN "GOOD: Suitable crew with minor considerations"
  ELSE IF candidate.rankScore >= 60
  THEN "ACCEPTABLE: Legal but check warnings"
  ELSE "USE WITH CAUTION: Legal but multiple concerns"

generateOverallRecommendations(candidates) ==
  IF Len(candidates) = 0
  THEN << "NO LEGAL CREW FOUND: Consider deadhead from another base or cancel flight" >>
  ELSE LET limited ==
             IF Len(candidates) < 3
             THEN << "LIMITED OPTIONS: Consider activating additional reserves" >>
             ELSE << >>
           highCost ==
             IF \A i \in 1..Len(candidates) :
                  candidates[i].cost.totalUsd > 100000
             THEN << "HIGH COST: All options involve premium pay or deadheads" >>
             ELSE << >>
           fatigueRiskCandidates ==
             SelectSeq(candidates,
                       LAMBDA c :
                         \E i \in 1..Len(c.legality.warnings) :
                           c.legality.warnings[i].rule
                             \in {"FRMS_WOCL", "FRMS_CONSECUTIVE_DUTY",
                                  "FRMS_LONG_DUTY"})
           fatigue ==
             IF 2 * Len(fatigueRiskCandidates) > Len(candidates)
             THEN << "FATIGUE RISK: Monitor crew closely during duty" >>
             ELSE << >>
           recommendations == limited \o highCost \o fatigue
       IN  IF recommendations = << >>
           THEN << "Multiple good options available" >>
           ELSE recommendations

\* one candidate as the tool returns it
toolCandidateOf(c) ==
  [employeeId |-> c.employeeId,
   legality |->
     [isLegal |-> c.legality.isLegal,
      dutyRemainingHours |-> calculateRemainingDuty(c),
      restCompliant |->
        SelectSeq(c.legality.violations,
                  LAMBDA v : v.rule = "117.25(b)") = << >>,
      currencyValid |-> TRUE,
      violations |-> [i \in 1..Len(c.legality.violations) |->
                        [rule |-> c.legality.violations[i].rule,
                         description |-> c.legality.violations[i].description,
                         severity |-> c.legality.violations[i].severity]],
      warnings |-> [i \in 1..Len(c.legality.warnings) |->
                      [rule |-> c.legality.warnings[i].rule,
                       description |-> c.legality.warnings[i].description]]],
   logistics |-> c.logistics,
   cost |-> c.cost,
   rankScore |-> c.rankScore,
   recommendation |-> generateRecommendation(c)]

\* what the tool returns: the candidates of the service with the search
\* metadata (without the measured response time), or the error result of its
\* catch block
findReplacementCrewTool(states, members, input) ==
  IF findReplacementCrewThrows(states, members, input)
  THEN [error |-> TRUE,
        message |-> "Invalid time value",
        flightNumber |-> input.flightNumber,
        position |-> input.position,
        departureTimeUtc |-> input.departureTimeUtc]
  ELSE LET candidates ==
             findReplacementCrew(states, members,
               withField(input, "maxResults", maxResultsOf(input)))
       IN  [flightNumber |-> input.flightNumber,
            position |-> input.position,
            departureTimeUtc |-> input.departureTimeUtc,
            candidates |-> [i \in 1..Len(candidates) |->
                              toolCandidateOf(candidates[i])],
            searchMetadata |->
              [searchedCount |-> Len(candidates) + 10,
               legalCount |-> Len(candidates),
               basesSearched |-> <<input.base>>,
               includesDeadheads |-> includeDeadheadOptionsOf(input)],
            recommendations |-> generateOverallRecommendations(candidates)]

----------------------------------------------------------------------------
(* tools/optimize-reserve-callout.  Its scores and percentages are fractions; *)
(* they are counted in 64ths of a point, which makes every quotient of the    *)
(* source exact: with d the cumulative duty in half hours, the utilization    *)
(* (d/2)/160*100 is 20*d 64ths, and so on.                                    *)

\* p points, in 64ths
Points(p) == 64 * p

calculateAvailabilityScore(reserve, requiredTimeUtc) ==
  LET hoursAvailable ==
        Minus(getTime(reserve.stateEndUtc), getTime(requiredTimeUtc))
  IN  IF hoursAvailable = NaN THEN Points(40)
      ELSE IF hoursAvailable >= Hours(12) THEN Points(100)
      ELSE IF hoursAvailable >= Hours(8) THEN Points(80)
      ELSE IF hoursAvailable >= Hours(4) THEN Points(60)
      ELSE Points(40)

\* now is the value of Date.now()
calculateFatigueScore(reserve, now) ==
  LET days == reserve.consecutiveDutyDays * Points(15)
      \* (dutyHoursCumulative / 160) * 30
      utilization == 6 * reserve.dutyHoursCumulative
      wocl ==
        IF "lastWoclExposure" \in DOMAIN reserve
        THEN (IF Less(Minus(now, getTime(reserve.lastWoclExposure)),
                      Hours(24))
              THEN Points(20) ELSE 0)
        ELSE 0
  IN  Min(Points(100), days + utilization + wocl)

\* the metrics optimizeReserveCallout computes for one reserve
metricsOf(reserve, requiredTimeUtc, now) ==
  [utilizationThisMonth |-> 20 * reserve.dutyHoursCumulative,
   daysOnReserveSinceLastCall |-> 5,
   costPerHour |-> IF reserve.flightHoursMonth > Hours(75) THEN 150 ELSE 100,
   availabilityScore |-> calculateAvailabilityScore(reserve, requiredTimeUtc),
   fatigueScore |-> calculateFatigueScore(reserve, now),
   calloutCountThisMonth |-> reserve.dutyHoursCumulative \div Hours(20),
   hoursUsedVsAvailable |-> 32 * reserve.dutyHoursCumulative]

\* the score of the strategy and the common terms, before the clamp
calloutScoreOf(metrics, priorityFactor) ==
  Points(100)
  + (CASE priorityFactor = "cost" ->
            0 - (Points(metrics.costPerHour - 100) \div 2)
              - (metrics.utilizationThisMonth \div 5)
       [] priorityFactor = "fairness" ->
            0 - metrics.calloutCountThisMonth * Points(10)
              - (metrics.hoursUsedVsAvailable \div 2)
              + metrics.daysOnReserveSinceLastCall * Points(2)
       [] priorityFactor = "seniority" ->
            (IF metrics.utilizationThisMonth < Points(50)
             THEN Points(20) ELSE 0)
       [] OTHER -> 0)
  - (metrics.fatigueScore \div 2)
  + (metrics.availabilityScore \div 5)

\* calculateCalloutRankScore without the clamp
calculateCalloutRankScoreUnclamped(metrics, priorityFactor) ==
  calloutScoreOf(metrics, priorityFactor)

\* calculateRankScore of optimize-reserve-callout
calculateCalloutRankScore(metrics, priorityFactor) ==
  Max(0, Min(Points(100), calloutScoreOf(metrics, priorityFactor)))

\* the priorityFactor parameter with its default
priorityFactorOf(input) ==
  IF "priorityFactor" \in DOMAIN input THEN input.priorityFactor
  ELSE "fairness"

\* the reserves of the base and position, in Map order
calloutReserves(states, members, input) ==
  SelectSeq(getCrewByState(states, "RESERVE"),
            LAMBDA state :
              /\ state.employeeId \in DOMAIN members
              /\ members[state.employeeId].base = input.base
              /\ members[state.employeeId].position = input.position)

\* the recommendation for one reserve, without its name and reasoning texts
recommendationOf(reserve, input, now) ==
  LET metrics == metricsOf(reserve, input.requiredTimeUtc, now)
  IN  [employeeId |-> reserve.employeeId,
       rankScore |-> calculateCalloutRankScore(metrics,
                                               priorityFactorOf(input)),
       metrics |->
         [utilizationThisMonth |-> metrics.utilizationThisMonth,
          daysOnReserveSinceLastCall |-> metrics.daysOnReserveSinceLastCall,
          costPerHour |-> metrics.costPerHour,
          availabilityScore |-> metrics.availabilityScore,
          fatigueScore |-> metrics.fatigueScore],
       fairnessConsiderations |->
         [calloutCountThisMonth |-> metrics.calloutCountThisMonth,
          hoursUsedVsAvailable |-> metrics.hoursUsedVsAvailable]]

\* list.reduce((min, r) => key(r) < key(min) ? r : min), keys[i] being the
\* key of list[i]: the first element whose key is the least
firstLeast(list, keys) ==
  list[CHOOSE i \in 1..Len(list) :
         /\ \A j \in 1..Len(list) : keys[i] <= keys[j]
         /\ \A j \in 1..(i - 1) : keys[j] > keys[i]]

\* the sum of the utilizations of a list of recommendations
RECURSIVE sumUtilization(_)
sumUtilization(list) ==
  IF list = << >> THEN 0
  ELSE Head(list).metrics.utilizationThisMonth + sumUtilization(Tail(list))

\* what optimizeReserveCallout returns when Date.now() is now; the average
\* utilization is kept as the pair of its sum and count
optimizeReserveCallout(states, members, input, now) ==
  LET reserves == calloutReserves(states, members, input)
      recommendations ==
        [i \in 1..Len(reserves) |-> recommendationOf(reserves[i], input, now)]
      sortedRecommendations ==
        slice0(sortByRank(recommendations), maxResultsOf(input))
  IN  IF Len(reserves) = 0
      THEN [error |-> TRUE,
            message |-> "No reserves available",
            base |-> input.base,
            position |-> input.position,
            requiredTimeUtc |-> input.requiredTimeUtc]
      ELSE IF sortedRecommendations = << >>
      THEN [thrown |-> "Reduce of empty array with no initial value"]
      ELSE [base |-> input.base,
            position |-> input.position,
            requiredTimeUtc |-> input.requiredTimeUtc,
            duration |-> input.duration,
            priorityFactor |-> priorityFactorOf(input),
            recommendations |-> sortedRecommendations,
            poolStatus |->
              [totalReserves |-> Len(reserves),
               recommendedCount |-> Len(sortedRecommendations),
               averageUtilization |->
                 <<sumUtilization(recommendations), Len(recommendations)>>,
               lowestCostOption |->
                 firstLeast(sortedRecommendations,
                            [i \in 1..Len(sortedRecommendations) |->
                               sortedRecommendations[i].metrics.costPerHour]),
               fairestOption |->
                 firstLeast(sortedRecommendations,
                            [i \in 1..Len(sortedRecommendations) |->
                               sortedRecommendations[i]
                                 .fairnessConsiderations
                                 .calloutCountThisMonth])],
            timestamp |-> now]

----------------------------------------------------------------------------
(* tools/validate-crew-legality *)

\* the checkCategories parameter with its default
checkCategoriesOf(input) ==
  IF "checkCategories" \in DOMAIN input THEN input.checkCategories
  ELSE <<"part117", "fatigue_risk">>

\* flights.reduce((sum, flight) => sum + flight.flightTimeHours, 0)
RECURSIVE sumFlightTime(_)
sumFlightTime(flights) ==
  IF flights = << >> THEN 0
  ELSE Head(flights).flightTimeHours + sumFlightTime(Tail(flights))

\* the DutyPeriod the tool builds from its input
dutyPeriodOf(proposedDuty) ==
  [startTimeUtc |-> proposedDuty.startTimeUtc,
   endTimeUtc |-> proposedDuty.endTimeUtc,
   reportTimeUtc |-> proposedDuty.reportTimeUtc,
   releaseTimeUtc |-> proposedDuty.endTimeUtc,
   flights |-> proposedDuty.flights,
   totalDutyHours |-> Minus(getTime(proposedDuty.endTimeUtc),
                            getTime(proposedDuty.startTimeUtc)),
   totalFlightHours |-> sumFlightTime(proposedDuty.flights)]

validateCrewLegality(states, input) ==
  LET crewState == getCrewStatus(states, input.employeeId)
  IN  IF crewState = Null
      THEN [error |-> TRUE,
            message |-> "Crew member not found",
            isLegal |-> FALSE]
      ELSE LET dutyPeriod == dutyPeriodOf(input.proposedDuty)
               result == validateDuty(crewState, dutyPeriod,
                                      checkCategoriesOf(input))
           IN  [employeeId |-> input.employeeId,
                isLegal |-> result.isLegal,
                violations |-> result.violations,
                warnings |-> result.warnings,
                checksPerformed |-> result.checksPerformed,
                crewCurrentState |->
                  [location |-> crewState.currentLocation,
                   stateType |-> crewState.stateType,
                   dutyHoursMonth |-> crewState.dutyHoursCumulative,
                   flightHoursMonth |-> crewState.flightHoursMonth,
                   consecutiveDutyDays |-> crewState.consecutiveDutyDays],
                proposedDutyHours |-> dutyPeriod.totalDutyHours,
                proposedFlightHours |-> dutyPeriod.totalFlightHours]

----------------------------------------------------------------------------
(* tools/get-crew-status-realtime and CrewStateService.getReservePoolStatus *)

\* stateEndUtc - now, for now the value the tool reads from the clock
hoursRemainingOf(state, now) == Minus(getTime(state.stateEndUtc), now)

generateStatusFlags(state, now) ==
  (IF state.stateType = "SICK" THEN <<"UNAVAILABLE_SICK">> ELSE << >>)
  \o (IF state.stateType = "VACATION"
      THEN <<"UNAVAILABLE_VACATION">> ELSE << >>)
  \o (IF Less(hoursRemainingOf(state, now), Hours(2))
         /\ state.stateType = "DUTY"
      THEN <<"APPROACHING_TIMEOUT">> ELSE << >>)
  \o (IF state.flightHoursMonth > Hours(90)
      THEN <<"HIGH_MONTHLY_HOURS">> ELSE << >>)
  \o (IF state.consecutiveDutyDays >= 5 THEN <<"FATIGUE_RISK">> ELSE << >>)
  \o (IF state.dutyHoursCumulative < Hours(10)
      THEN <<"FRESH_CREW">> ELSE << >>)

formatCrewStatus(state, now) ==
  LET hoursRemaining == hoursRemainingOf(state, now)
  IN  [employeeId |-> state.employeeId,
       currentState |->
         [type |-> state.stateType,
          startUtc |-> state.stateStartUtc,
          endUtc |-> state.stateEndUtc,
          hoursRemaining |-> IF hoursRemaining = NaN THEN NaN
                             ELSE Max(0, hoursRemaining)],
       location |-> state.currentLocation,
       availability |->
         [isAvailable |-> state.stateType = "RESERVE"
                            /\ Less(0, hoursRemaining),
          \* the list of the instant, empty for null
          nextAvailableUtc |-> IF state.stateType = "DUTY"
                               THEN <<state.stateEndUtc>> ELSE << >>,
          checkInStatus |-> IF Less(hoursRemaining, Hours(2))
                            THEN "PENDING" ELSE "OK"],
       limits |->
         [dutyHoursCumulative |-> state.dutyHoursCumulative,
          flightHoursMonth |-> state.flightHoursMonth,
          flightHoursYear |-> state.flightHoursYear,
          consecutiveDutyDays |-> state.consecutiveDutyDays],
       flags |-> generateStatusFlags(state, now)]

getCrewAtLocation(states, location) ==
  SelectSeq(states, LAMBDA state : state.currentLocation = location)

\* the answer to a query that lists crew
crewListOf(list, now) ==
  [crew |-> [i \in 1..Len(list) |-> formatCrewStatus(list[i], now)],
   count |-> Len(list),
   timestamp |-> now]

getCrewStatusRealtime(states, input, now) ==
  IF "employeeId" \in DOMAIN input
  THEN LET state == getCrewStatus(states, input.employeeId)
       IN  IF state = Null
           THEN [error |-> TRUE, message |-> "Crew member not found"]
           ELSE crewListOf(<<state>>, now)
  ELSE IF "location" \in DOMAIN input
  THEN withField(crewListOf(getCrewAtLocation(states, input.location), now),
                 "location", input.location)
  ELSE IF "stateType" \in DOMAIN input
  THEN withField(crewListOf(getCrewByState(states, input.stateType), now),
                 "stateType", input.stateType)
  ELSE [error |-> TRUE,
        message |-> "Must provide either employeeId, location, or stateType"]

\* utilizationPercent is a whole number: (10 - n) / 10 * 100
getReservePoolStatus(states, members, base, position, now) ==
  LET reserves == calloutReserves(states, members,
                                  [base |-> base, position |-> position])
  IN  [base |-> base,
       position |-> position,
       availableCrewIds |-> [i \in 1..Len(reserves) |->
                               reserves[i].employeeId],
       utilizationPercent |-> (10 - Len(reserves)) * 10,
       nextAvailableUtc |-> IF Len(reserves) > 0
                            THEN reserves[1].stateEndUtc
                            ELSE now]

----------------------------------------------------------------------------
(* executeCrewSwap *)

\* list.filter(f => f !== flightNumber)
withoutFlight(list, flightNumber) ==
  SelectSeq(list, LAMBDA f : f # flightNumber)

newOriginalState(originalCrew, flightNumber) ==
  [originalCrew EXCEPT
     !.stateType = "RESERVE",
     !.assignedFlights = withoutFlight(originalCrew.assignedFlights,
                                       flightNumber)]

\* newReplacementState opening a new state window at the effective time
newReplacementStateFromEffectiveTime(replacementCrew, flightNumber, effectiveTimeUtc) ==
  withField([replacementCrew EXCEPT
               !.stateType = "DUTY",
               !.stateStartUtc = effectiveTimeUtc,
               !.assignedFlights = Append(replacementCrew.assignedFlights,
                                          flightNumber)],
            "reportTimeUtc", effectiveTimeUtc)

newReplacementState(replacementCrew, flightNumber, effectiveTimeUtc) ==
  withField([replacementCrew EXCEPT
               !.stateType = "DUTY",
               !.assignedFlights = Append(replacementCrew.assignedFlights,
                                          flightNumber)],
            "reportTimeUtc", effectiveTimeUtc)

\* the four changes a swap tracks
swapChanges(input, originalCrew, replacementCrew) ==
  << [entity |-> "crew_assignment",
      entityId |-> <<input.flightNumber, input.originalCrewId>>,
      action |-> "delete",
      afterState |-> Null],
     [entity |-> "crew_assignment",
      entityId |-> <<input.flightNumber, input.replacementCrewId>>,
      action |-> "create",
      afterState |-> [flightNumber |-> input.flightNumber,
                      position |-> input.position,
                      employeeId |-> input.replacementCrewId]],
     [entity |-> "duty_state",
      entityId |-> <<input.originalCrewId>>,
      action |-> "update",
      afterState |-> newOriginalState(originalCrew, input.flightNumber)],
     [entity |-> "duty_state",
      entityId |-> <<input.replacementCrewId>>,
      action |-> "update",
      afterState |-> newReplacementState(replacementCrew, input.flightNumber,
                                         input.effectiveTimeUtc)] >>

\* changes.map(c => ({ entity, entityId, action }))
changeSummary(changes) ==
  [i \in 1..Len(changes) |->
     [entity |-> changes[i].entity,
      entityId |-> changes[i].entityId,
      action |-> changes[i].action]]

\* executeCrewSwapStates writing the outgoing member's record before it
\* looks for the incoming member
executeCrewSwapStatesBeforeLookup(states, input) ==
  LET originalCrew == getCrewStatus(states, input.originalCrewId)
      replacementCrew == getCrewStatus(states, input.replacementCrewId)
  IN  IF originalCrew = Null \/ input.dryRun
      THEN states
      ELSE IF replacementCrew = Null
      THEN setState(states, newOriginalState(originalCrew, input.flightNumber))
      ELSE setState(
             setState(states,
                      newOriginalState(originalCrew, input.flightNumber)),
             newReplacementState(replacementCrew, input.flightNumber,
                                 input.effectiveTimeUtc))

\* executeCrewSwapStates writing both records in a dry run too
executeCrewSwapStatesInDryRun(states, input) ==
  LET originalCrew == getCrewStatus(states, input.originalCrewId)
      replacementCrew == getCrewStatus(states, input.replacementCrewId)
  IN  IF originalCrew = Null \/ replacementCrew = Null
      THEN states
      ELSE setState(
             setState(states,
                      newOriginalState(originalCrew, input.flightNumber)),
             newReplacementState(replacementCrew, input.flightNumber,
                                 input.effectiveTimeUtc))

\* executeCrewSwapStates writing the incoming member's record first and the
\* outgoing member's record last
executeCrewSwapStatesOutgoingLast(states, input) ==
  LET originalCrew == getCrewStatus(states, input.originalCrewId)
      replacementCrew == getCrewStatus(states, input.replacementCrewId)
  IN  IF originalCrew = Null \/ replacementCrew = Null \/ input.dryRun
      THEN states
      ELSE setState(
             setState(states,
                      newReplacementState(replacementCrew,
                                          input.flightNumber,
                                          input.effectiveTimeUtc)),
             newOriginalState(originalCrew, input.flightNumber))

\* the store after executeCrewSwap(input)
executeCrewSwapStates(states, input) ==
  LET originalCrew == getCrewStatus(states, input.originalCrewId)
      replacementCrew == getCrewStatus(states, input.replacementCrewId)
  IN  IF originalCrew = Null \/ replacementCrew = Null \/ input.dryRun
      THEN states
      ELSE setState(
             setState(states,
                      newOriginalState(originalCrew, input.flightNumber)),
             newReplacementState(replacementCrew, input.flightNumber,
                                 input.effectiveTimeUtc))

\* what executeCrewSwap(input) returns
executeCrewSwapResult(states, input) ==
  LET originalCrew == getCrewStatus(states, input.originalCrewId)
      replacementCrew == getCrewStatus(states, input.replacementCrewId)
  IN  IF originalCrew = Null
      THEN [error |-> TRUE, message |-> "Original crew member not found"]
      ELSE IF replacementCrew = Null
      THEN [error |-> TRUE, message |-> "Replacement crew member not found"]
      ELSE IF input.dryRun
      THEN [status |-> "pending", dryRun |-> TRUE,
            changes |-> swapChanges(input, originalCrew, replacementCrew),
            rollbackAvailable |-> FALSE]
      ELSE [status |-> "completed",
            flightNumber |-> input.flightNumber,
            position |-> input.position,
            changes |-> changeSummary(
                          swapChanges(input, originalCrew, replacementCrew)),
            rollbackAvailable |-> TRUE]

----------------------------------------------------------------------------
(* Inputs of the operations *)

EmployeeIds == {10001, 10002, 10003}

\* a CrewDutyState record
CrewDutyState(employeeId, stateType, stateEndUtc, days, month, year, duty, location, flights) ==
  [employeeId |-> employeeId,
   stateStartUtc |-> At(0, 6, 0),
   stateEndUtc |-> stateEndUtc,
   stateType |-> stateType,
   currentLocation |-> location,
   dutyHoursCumulative |-> duty,
   restHoursCumulative |-> Hours(72),
   flightHoursMonth |-> month,
   flightHoursYear |-> year,
   consecutiveDutyDays |-> days,
   assignedFlights |-> flights]

\* a CrewMember record
CrewMember(employeeId, position, base, aircraftTypes) ==
  [employeeId |-> employeeId, position |-> position, base |-> base,
   aircraftTypes |-> aircraftTypes]

\* crew states handed to validateDuty: rests of -2 h to 23 h and a malformed
\* end, both sides of the extended-rest and fatigue thresholds, cumulative
\* hours that reach and pass both caps
LegalityCrewStates ==
  { CrewDutyState(10002, "RESERVE", stateEndUtc, days, month, year,
                  Hours(28), "ORD", << >>) :
      stateEndUtc \in {At(0, 14, 0), At(0, 15, 0), At(0, 20, 0),
                       At(1, 3, 0), NaN},
      days \in {2, 3, 5},
      month \in {Hours(38) + 1, Hours(96), Hours(98)},
      year \in {Hours(512), Hours(996)} }

\* a DutyPeriod record that starts at startTimeUtc
DutyPeriod(startTimeUtc, totalDutyHours, totalFlightHours) ==
  [startTimeUtc |-> startTimeUtc,
   endTimeUtc |-> startTimeUtc + totalDutyHours,
   reportTimeUtc |-> startTimeUtc,
   releaseTimeUtc |-> startTimeUtc + totalDutyHours,
   flights |-> << >>,
   totalDutyHours |-> totalDutyHours,
   totalFlightHours |-> totalFlightHours]

\* duty periods handed to validateDuty: starts before, in and after the
\* circadian low, lengths and flight times at and around each limit
LegalityDutyPeriods ==
  { DutyPeriod(startTimeUtc, totalDutyHours, totalFlightHours) :
      startTimeUtc \in {At(1, 1, 0), At(1, 2, 0), At(1, 6, 30),
                        At(1, 7, 0), At(1, 13, 0)},
      totalDutyHours \in {Hours(5) + 1, Hours(11), Hours(11) + 1,
                          Hours(13), Hours(13) + 1, Hours(14)},
      totalFlightHours \in {Hours(4), Hours(4) + 1, Hours(9),
                            Hours(9) + 1} }

LegalityCategories ==
  { << >>, <<"part117">>, <<"fatigue_risk">>, <<"part117", "fatigue_risk">>,
    <<"cba">>, <<"fatigue_risk", "cba", "part117">> }

\* members handed to addCrewMember: three first officers based at ORD, all
\* qualified on the B737 and each on one type more or less than the others
MemberInputs ==
  { CrewMember(10001, "FO", "ORD", {"B737", "B738"}),
    CrewMember(10002, "FO", "ORD", {"B737"}),
    CrewMember(10003, "FO", "ORD", {"B737", "A320"}) }

\* states handed to updateCrewState: reserves of different freshness and
\* cost, one on duty after a circadian-low exposure at day 0 04:00, one sick,
\* one over the 28-day cap, one with a malformed end of state
StateInputs ==
  { CrewDutyState(10001, "RESERVE", At(0, 20, 0), 2, Hours(38) + 1, Hours(512), Hours(28), "ORD", << >>),
    withField(CrewDutyState(10001, "DUTY", At(0, 18, 0), 3, Hours(62), Hours(745), Hours(45) + 1, "DFW", <<"AA1234">>),
              "lastWoclExposure", At(0, 4, 0)),
    CrewDutyState(10002, "RESERVE", At(0, 20, 0), 3, Hours(80), Hours(598), Hours(32), "ORD", << >>),
    CrewDutyState(10002, "RESERVE", At(0, 22, 0), 1, Hours(22), Hours(345), Hours(18) + 1, "ORD", << >>),
    CrewDutyState(10003, "RESERVE", At(0, 20, 0), 5, Hours(50), Hours(600), Hours(50), "ORD", << >>),
    CrewDutyState(10003, "RESERVE", At(0, 20, 0), 1, Hours(98), Hours(892), Hours(52), "ORD", << >>),
    CrewDutyState(10003, "SICK", At(0, 20, 0), 0, Hours(22), Hours(345), Hours(18), "ORD", << >>),
    CrewDutyState(10003, "RESERVE", NaN, 1, Hours(22), Hours(345), Hours(18), "MDW", << >>) }

\* a request for a first officer
FindRequest(base, position, aircraftType, departureTimeUtc) ==
  [flightNumber |-> "AA1234", position |-> position, base |-> base,
   aircraftType |-> aircraftType, departureTimeUtc |-> departureTimeUtc]

\* requests handed to findReplacementCrew: an afternoon departure with every
\* maxResults up to 2 and without one, a departure in the circadian low, and
\* requests for another base, position and aircraft type
FindInputs ==
  { withField(FindRequest("ORD", "FO", "B737", At(1, 14, 0)),
              "maxResults", maxResults) : maxResults \in 0..2 }
  \cup
  { FindRequest("ORD", "FO", "B737", At(1, 14, 0)),
    FindRequest("ORD", "FO", "B737", At(1, 6, 0)),
    FindRequest("DFW", "FO", "B737", At(1, 14, 0)),
    FindRequest("ORD", "CA", "B737", At(1, 14, 0)),
    FindRequest("ORD", "FO", "A320", At(1, 14, 0)) }

\* requests handed to the find-replacement-crew tool: the afternoon
\* departure with and without deadhead options, and a departure time that
\* is not a date for the base of the pool and for a base without reserves
ToolFindInputs ==
  { FindRequest("ORD", "FO", "B737", At(1, 14, 0)),
    withField(FindRequest("ORD", "FO", "B737", At(1, 14, 0)),
              "includeDeadheadOptions", FALSE),
    FindRequest("ORD", "FO", "B737", NaN),
    FindRequest("DFW", "FO", "B737", NaN) }

\* the instants Date.now() returns: the evening of day 0 and the afternoon of
\* day 1
Clock == {At(0, 20, 0), At(1, 14, 0)}

\* crew states handed to the rankers: cumulative duty from none to 160 hours,
\* on both sides of the 20-hour threshold, consecutive days on both sides of
\* 3, regular and overtime flight hours, ends of state 2, 8 and 12 hours
\* after day 1 14:00 and a malformed one, with and without a circadian-low
\* exposure at day 0 04:00
RankingStates ==
  { CrewDutyState(10002, "RESERVE", stateEndUtc, days, month, Hours(345),
                  duty, "ORD", << >>) :
      stateEndUtc \in {At(1, 16, 0), At(1, 22, 0), At(2, 2, 0), NaN},
      days \in {0, 2, 3, 7},
      month \in {Hours(22), Hours(80)},
      duty \in {0, Hours(19) + 1, Hours(20), Hours(80), Hours(160)} }

RankingExposedStates ==
  { withField(state, "lastWoclExposure", At(0, 4, 0)) :
      state \in RankingStates }

\* a verdict with n warnings
LegalityWithWarnings(n) ==
  [isLegal |-> TRUE,
   violations |-> << >>,
   warnings |-> [i \in 1..n |->
                   [category |-> "fatigue_risk", rule |-> "FRMS_LONG_DUTY",
                    description |-> "Duty period exceeds 11 hours",
                    severity |-> "advisory"]],
   checksPerformed |-> <<"part117", "fatigue_risk">>]

\* numbers of warnings handed to calculateRankScore: 16 and 21 take the
\* penalties below zero
RankingWarningCounts == {0, 1, 3, 16, 21}

\* costs handed to calculateRankScore, in cents: at, above and below 1000
\* dollars, with and without overtime premium
RankingCosts ==
  { [totalUsd |-> 51625, overtimePremium |-> 0],
    [totalUsd |-> 76625, overtimePremium |-> 25000],
    [totalUsd |-> 100000, overtimePremium |-> 0],
    [totalUsd |-> 100001, overtimePremium |-> 0],
    [totalUsd |-> 125001, overtimePremium |-> 25000] }

\* strategies handed to the ranker of optimize-reserve-callout: the three of
\* the schema and one the switch has no case for
PriorityFactors == {"cost", "fairness", "seniority", "speed"}

\* requests handed to optimizeReserveCallout: the first officers of ORD by
\* the default strategy and by cost, and the captains, of which there are none
CalloutInputs ==
  { [base |-> "ORD", position |-> "FO", requiredTimeUtc |-> At(1, 14, 0),
     duration |-> Hours(6)],
    [base |-> "ORD", position |-> "FO", requiredTimeUtc |-> At(1, 14, 0),
     duration |-> Hours(6), priorityFactor |-> "cost"],
    [base |-> "ORD", position |-> "CA", requiredTimeUtc |-> At(1, 14, 0),
     duration |-> Hours(6)] }

\* a flight of a proposed duty
FlightInput(departureUtc, arrivalUtc, flightTimeHours) ==
  [flightNumber |-> "AA1234", departureUtc |-> departureUtc,
   arrivalUtc |-> arrivalUtc, origin |-> "ORD", destination |-> "DFW",
   flightTimeHours |-> flightTimeHours]

\* queries handed to validateCrewLegality, both for 10001: a duty from day 1
\* 13:00 to 18:30 with 4 flight hours, and one whose end is 5 hours before
\* its start
ValidateInputs ==
  { [employeeId |-> 10001,
     proposedDuty |->
       [flights |-> << FlightInput(At(1, 14, 0), At(1, 18, 0), Hours(4)) >>,
        startTimeUtc |-> At(1, 13, 0),
        endTimeUtc |-> At(1, 18, 30),
        reportTimeUtc |-> At(1, 13, 0)]],
    [employeeId |-> 10001,
     proposedDuty |->
       [flights |-> << FlightInput(At(1, 14, 0), At(1, 18, 0), Hours(4)) >>,
        startTimeUtc |-> At(1, 18, 0),
        endTimeUtc |-> At(1, 13, 0),
        reportTimeUtc |-> At(1, 18, 0)]] }

\* queries handed to getCrewStatusRealtime: one by id, one by location, one
\* by state and one that names none of them
StatusInputs ==
  { [employeeId |-> 10003],
    [location |-> "DFW"],
    [stateType |-> "SICK"],
    << >> }

\* inputs handed to executeCrewSwap
SwapInputs ==
  [flightNumber : {"AA1234"}, position : {"FO"},
   originalCrewId : {10001, 10002}, replacementCrewId : {10002, 10003},
   effectiveTimeUtc : {At(1, 13, 0)}, dryRun : BOOLEAN]

----------------------------------------------------------------------------
(* The state machine *)

\* no value returned
NoResponse == [op |-> "none"]

\* new CrewStateService(): both Maps empty
Init ==
  /\ crewStates = << >>
  /\ crewMembers = << >>
  /\ response = NoResponse

\* CrewStateService.addCrewMember(member)
AddCrewMember ==
  \E member \in MemberInputs :
    /\ crewMembers' = setMember(crewMembers, member)
    /\ response' = NoResponse
    /\ UNCHANGED crewStates

\* CrewStateService.updateCrewState(state)
UpdateCrewState ==
  \E state \in StateInputs :
    /\ crewStates' = setState(crewStates, state)
    /\ response' = NoResponse
    /\ UNCHANGED crewMembers

\* CrewStateService.findReplacementCrew(params)
FindReplacementCrew ==
  \E params \in FindInputs :
    /\ response' = [op |-> "findReplacementCrew",
                    params |-> params,
                    result |-> findReplacementCrew(crewStates, crewMembers,
                                                   params)]
    /\ UNCHANGED <<crewStates, crewMembers>>

\* tools/find-replacement-crew: findReplacementCrew(input, crewStateService)
FindReplacementCrewTool ==
  \E input \in ToolFindInputs :
    /\ response' = [op |-> "findReplacementCrewTool",
                    input |-> input,
                    result |-> findReplacementCrewTool(crewStates,
                                                       crewMembers, input)]
    /\ UNCHANGED <<crewStates, crewMembers>>

\* OptimizeReserveCallout putting the reserve it ranks first on duty
OptimizeReserveCalloutAssigning ==
  \E input \in CalloutInputs, now \in Clock :
    LET result == optimizeReserveCallout(crewStates, crewMembers, input, now)
    IN  /\ response' = [op |-> "optimizeReserveCallout",
                        input |-> input,
                        result |-> result]
        /\ crewStates' =
             IF "recommendations" \in DOMAIN result
             THEN setState(crewStates,
                    [getCrewStatus(crewStates,
                                   result.recommendations[1].employeeId)
                       EXCEPT !.stateType = "DUTY"])
             ELSE crewStates
        /\ UNCHANGED crewMembers

\* optimizeReserveCallout(input, crewStateService), run when the clock shows
\* now
OptimizeReserveCallout ==
  \E input \in CalloutInputs, now \in Clock :
    /\ response' = [op |-> "optimizeReserveCallout",
                    input |-> input,
                    result |-> optimizeReserveCallout(crewStates, crewMembers,
                                                      input, now)]
    /\ UNCHANGED <<crewStates, crewMembers>>

\* validateCrewLegality(input, crewStateService)
ValidateCrewLegality ==
  \E input \in ValidateInputs :
    /\ response' = [op |-> "validateCrewLegality",
                    input |-> input,
                    result |-> validateCrewLegality(crewStates, input)]
    /\ UNCHANGED <<crewStates, crewMembers>>

\* getCrewStatusRealtime(input, crewStateService), run when the clock shows
\* now
GetCrewStatusRealtime ==
  \E input \in StatusInputs, now \in Clock :
    /\ response' = [op |-> "getCrewStatusRealtime",
                    input |-> input,
                    result |-> getCrewStatusRealtime(crewStates, input, now)]
    /\ UNCHANGED <<crewStates, crewMembers>>

\* CrewStateService.getReservePoolStatus(base, position), run when the clock
\* shows now
GetReservePoolStatus ==
  \E now \in Clock :
    /\ response' = [op |-> "getReservePoolStatus",
                    result |-> getReservePoolStatus(crewStates, crewMembers,
                                                    "ORD", "FO", now)]
    /\ UNCHANGED <<crewStates, crewMembers>>

\* the assignedFlights list of the replacement can still grow
canExtend(states, input) ==
  LET replacementCrew == getCrewStatus(states, input.replacementCrewId)
  IN  IF replacementCrew = Null THEN TRUE
      ELSE Len(replacementCrew.assignedFlights) < MaxFlights

\* executeCrewSwap(input, crewStateService)
ExecuteCrewSwap ==
  \E input \in SwapInputs :
    /\ canExtend(crewStates, input)
    /\ crewStates' = executeCrewSwapStates(crewStates, input)
    /\ response' = [op |-> "executeCrewSwap",
                    input |-> input,
                    result |-> executeCrewSwapResult(crewStates, input)]
    /\ UNCHANGED crewMembers

Next ==
  \/ AddCrewMember
  \/ UpdateCrewState
  \/ FindReplacementCrew
  \/ ExecuteCrewSwap

Spec == Init /\ [][Next]_vars

\* the lists of crew states the server loads at startup: up to three states
\* of different crew members, in every order
LoadLists ==
  { load \in UNION { [1..n -> StateInputs] : n \in 0..3 } :
      \A i, j \in 1..Len(load) :
        i # j => load[i].employeeId # load[j].employeeId }

\* mockCrewStates.forEach(state => crewStateService.updateCrewState(state))
RECURSIVE loadStates(_)
loadStates(load) ==
  IF load = << >> THEN << >>
  ELSE setState(loadStates(SubSeq(load, 1, Len(load) - 1)), load[Len(load)])

\* mockCrewMembers.forEach(member => crewStateService.addCrewMember(member))
loadedMembers ==
  [id \in {member.employeeId : member \in MemberInputs} |->
     CHOOSE member \in MemberInputs : member.employeeId = id]

\* the server after startup: every member and some list of states loaded
InitTools ==
  /\ crewMembers = loadedMembers
  /\ \E load \in LoadLists : crewStates = loadStates(load)
  /\ response = NoResponse

\* the handlers of the tools that use the store
NextTools ==
  \/ FindReplacementCrewTool
  \/ OptimizeReserveCallout
  \/ ValidateCrewLegality
  \/ GetCrewStatusRealtime
  \/ GetReservePoolStatus
  \/ ExecuteCrewSwap

\* the server in operation: after startup only the tools act on the store
SpecTools == InitTools /\ [][NextTools]_vars

\* two swaps share a crew id
sharesId(a, b) ==
  {a.originalCrewId, a.replacementCrewId}
    \cap {b.originalCrewId, b.replacementCrewId} # {}

\* a call of executeCrewSwap the handler has received and not yet started
issuedCall(input) ==
  [input |-> input, pc |-> "issued",
   originalCrew |-> Null, replacementCrew |-> Null]

\* two requests for a swap naming a common id reach the server after
\* startup; response holds both calls and the store they were issued on
InitConcurrent ==
  /\ crewMembers = loadedMembers
  /\ \E load \in LoadLists : crewStates = loadStates(load)
  /\ \E a, b \in SwapInputs :
       /\ sharesId(a, b)
       /\ response = [op |-> "concurrentSwaps",
                      issuedOn |-> crewStates,
                      calls |-> <<issuedCall(a), issuedCall(b)>>]

\* canRun with a suspension point between any two statements of the body
canRunSuspending(calls, i) == TRUE

\* call i may execute its next statement: the body of executeCrewSwap holds
\* no await, so once the event loop has entered a call it runs it to its
\* return before it enters another
canRun(calls, i) ==
  \A j \in DOMAIN calls :
    j # i => calls[j].pc \in {"issued", "done"}

\* the two getCrewStatus reads, followed by the returns that need no write:
\* an id without state, or a dry run
SwapRead(i) ==
  LET call == response.calls[i]
      originalCrew == getCrewStatus(crewStates, call.input.originalCrewId)
      replacementCrew ==
        getCrewStatus(crewStates, call.input.replacementCrewId)
  IN  /\ call.pc = "issued"
      /\ canRun(response.calls, i)
      /\ response' =
           [response EXCEPT !.calls[i] =
              [call EXCEPT
                 !.originalCrew = originalCrew,
                 !.replacementCrew = replacementCrew,
                 !.pc = IF \/ originalCrew = Null
                           \/ replacementCrew = Null
                           \/ call.input.dryRun
                        THEN "done" ELSE "read"]]
      /\ UNCHANGED <<crewStates, crewMembers>>

\* crewStateService.updateCrewState(newOriginalState)
SwapWriteOriginal(i) ==
  LET call == response.calls[i]
  IN  /\ call.pc = "read"
      /\ canRun(response.calls, i)
      /\ crewStates' =
           setState(crewStates,
                    newOriginalState(call.originalCrew,
                                     call.input.flightNumber))
      /\ response' = [response EXCEPT !.calls[i].pc = "wroteOriginal"]
      /\ UNCHANGED crewMembers

\* crewStateService.updateCrewState(newReplacementState) and the return
SwapWriteReplacement(i) ==
  LET call == response.calls[i]
  IN  /\ call.pc = "wroteOriginal"
      /\ canRun(response.calls, i)
      /\ crewStates' =
           setState(crewStates,
                    newReplacementState(call.replacementCrew,
                                        call.input.flightNumber,
                                        call.input.effectiveTimeUtc))
      /\ response' = [response EXCEPT !.calls[i].pc = "done"]
      /\ UNCHANGED crewMembers

\* the event loop executes a statement of one of the two calls
NextConcurrent ==
  \/ \E i \in 1..2 : SwapRead(i)
  \/ \E i \in 1..2 : SwapWriteOriginal(i)
  \/ \E i \in 1..2 : SwapWriteReplacement(i)

\* two concurrent executeCrewSwap requests on the server
SpecConcurrent == InitConcurrent /\ [][NextConcurrent]_vars

\* a call of validateDuty on some crew state, duty period and category list
InitLegality ==
  /\ crewStates = << >>
  /\ crewMembers = << >>
  /\ \E crewState \in LegalityCrewStates,
        proposedDuty \in LegalityDutyPeriods,
        checkCategories \in LegalityCategories :
       response = [op |-> "call",
                   crewState |-> crewState,
                   proposedDuty |-> proposedDuty,
                   checkCategories |-> checkCategories]

\* LegalityEngine.validateDuty(crewState, proposedDuty, checkCategories)
ValidateDuty ==
  /\ response.op = "call"
  /\ response' = [op |-> "validateDuty",
                  crewState |-> response.crewState,
                  proposedDuty |-> response.proposedDuty,
                  checkCategories |-> response.checkCategories,
                  result |-> validateDuty(response.crewState,
                                          response.proposedDuty,
                                          response.checkCategories)]
  /\ UNCHANGED <<crewStates, crewMembers>>

NextLegality == ValidateDuty

\* the legality engine alone, on every input of the bounded sets
SpecLegality == InitLegality /\ [][NextLegality]_vars

\* a call of one of the two rankers on some crew state
InitRanking ==
  /\ crewStates = << >>
  /\ crewMembers = << >>
  /\ \/ \E state \in RankingStates, n \in RankingWarningCounts,
            cost \in RankingCosts :
          response = [op |-> "rank",
                      state |-> state,
                      legality |-> LegalityWithWarnings(n),
                      cost |-> cost]
     \/ \E reserve \in RankingStates \cup RankingExposedStates,
            now \in Clock, priorityFactor \in PriorityFactors :
          response = [op |-> "rankCallout",
                      reserve |-> reserve,
                      requiredTimeUtc |-> At(1, 14, 0),
                      now |-> now,
                      priorityFactor |-> priorityFactor]

\* CrewStateService.calculateRankScore(state, legality, cost)
CalculateRankScore ==
  /\ response.op = "rank"
  /\ response' = [op |-> "calculateRankScore",
                  state |-> response.state,
                  legality |-> response.legality,
                  cost |-> response.cost,
                  result |-> calculateRankScore(response.state,
                                                response.legality,
                                                response.cost)]
  /\ UNCHANGED <<crewStates, crewMembers>>

\* calculateRankScore(metrics, priorityFactor) of optimize-reserve-callout,
\* on the metrics optimizeReserveCallout computes for the reserve
CalculateCalloutRankScore ==
  /\ response.op = "rankCallout"
  /\ LET metrics == metricsOf(response.reserve, response.requiredTimeUtc,
                              response.now)
     IN  response' = [op |-> "calculateCalloutRankScore",
                      reserve |-> response.reserve,
                      metrics |-> metrics,
                      priorityFactor |-> response.priorityFactor,
                      result |-> calculateCalloutRankScore(
                                   metrics, response.priorityFactor)]
  /\ UNCHANGED <<crewStates, crewMembers>>

NextRanking ==
  \/ CalculateRankScore
  \/ CalculateCalloutRankScore

\* the two rankers alone, on every input of the bounded sets
SpecRanking == InitRanking /\ [][NextRanking]_vars

----------------------------------------------------------------------------
(* Properties of LegalityEngine.validateDuty, checked under SpecLegality *)

\* validateDuty has returned
Validated == response.op = "validateDuty"

\* the call evaluated the part117 rules
EvaluatedPart117 == Validated /\ Includes(response.checkCategories, "part117")

\* the violations of the verdict that cite rule and carry description
violationsCiting(rule, description) ==
  SelectSeq(response.result.violations,
            LAMBDA v : v.rule = rule /\ v.description = description)

\* the five conditions under which a regulatory rule is failed, stated on the
\* inputs of the call
DutyTooLong == response.proposedDuty.totalDutyHours > Hours(13)

FlightTooLong == response.proposedDuty.totalFlightHours > Hours(9)

RestTooShort ==
  /\ response.crewState.stateEndUtc # NaN
  /\ response.proposedDuty.startTimeUtc - response.crewState.stateEndUtc
       < (IF response.crewState.consecutiveDutyDays >= 3
          THEN Hours(12) ELSE Hours(10))

Over28Days ==
  response.crewState.flightHoursMonth
    + response.proposedDuty.totalFlightHours > Hours(100)

Over365Days ==
  response.crewState.flightHoursYear
    + response.proposedDuty.totalFlightHours > Hours(1000)

\* 1 when the condition holds, 0 otherwise
Count(condition) == IF condition THEN 1 ELSE 0

\* C1: the verdict is legal if and only if none of its violations has
\* severity blocking, for every crew state, duty period and category list
C1_LegalIffNoBlocking ==
  Validated =>
    (response.result.isLegal
       <=> \A i \in 1..Len(response.result.violations) :
             response.result.violations[i].severity # "blocking")

\* a verdict that is illegal and carries a blocking violation
C1_Witness ==
  /\ Validated
  /\ ~response.result.isLegal
  /\ \E i \in 1..Len(response.result.violations) :
       response.result.violations[i].severity = "blocking"

\* C2: a period within all five limits, evaluated with categories part117
\* and fatigue_risk, is legal and has no violations
C2_WithinLimitsIsLegal ==
  ( /\ Validated
    /\ response.checkCategories = <<"part117", "fatigue_risk">>
    /\ response.proposedDuty.totalDutyHours <= Hours(13)
    /\ response.proposedDuty.totalFlightHours <= Hours(9)
    /\ response.crewState.stateEndUtc # NaN
    /\ response.proposedDuty.startTimeUtc - response.crewState.stateEndUtc
         >= (IF response.crewState.consecutiveDutyDays >= 3
             THEN Hours(12) ELSE Hours(10))
    /\ response.crewState.flightHoursMonth
         + response.proposedDuty.totalFlightHours <= Hours(100)
    /\ response.crewState.flightHoursYear
         + response.proposedDuty.totalFlightHours <= Hours(1000) )
  => ( /\ response.result.isLegal
       /\ response.result.violations = << >> )

\* a legal verdict for a period that sits exactly on the duty, flight-time,
\* rest and both cumulative limits
C2_Witness ==
  /\ Validated
  /\ response.checkCategories = <<"part117", "fatigue_risk">>
  /\ response.proposedDuty.totalDutyHours = Hours(13)
  /\ response.proposedDuty.totalFlightHours = Hours(4)
  /\ response.crewState.consecutiveDutyDays = 3
  /\ response.proposedDuty.startTimeUtc - response.crewState.stateEndUtc
       = Hours(12)
  /\ response.crewState.flightHoursMonth = Hours(96)
  /\ response.crewState.flightHoursYear = Hours(996)
  /\ response.result.isLegal
  /\ response.result.violations = << >>

\* C3: whenever the part117 rules are evaluated, a duty period longer than
\* 13 hours yields exactly one blocking 117.25(d) violation carrying the
\* observed hours and the limit 13, and an illegal verdict, whatever the crew
\* state, flight time, rest and cumulative hours; a period of at most 13
\* hours yields no 117.25(d) violation
C3_DutyOverrunBlocks ==
  LET found == violationsCiting("117.25(d)",
                                "Flight duty period exceeds maximum allowed")
  IN  /\ (EvaluatedPart117 /\ DutyTooLong) =>
            /\ Len(found) = 1
            /\ found[1].severity = "blocking"
            /\ found[1].currentValue = response.proposedDuty.totalDutyHours
            /\ found[1].limitValue = Hours(13)
            /\ ~response.result.isLegal
      /\ (Validated /\ ~DutyTooLong) =>
            \A i \in 1..Len(response.result.violations) :
              response.result.violations[i].rule # "117.25(d)"

\* a 13.5-hour period whose only failure is its length
C3_Witness ==
  /\ EvaluatedPart117
  /\ response.proposedDuty.totalDutyHours = Hours(13) + 1
  /\ Len(response.result.violations) = 1
  /\ response.result.violations[1].rule = "117.25(d)"
  /\ ~response.result.isLegal

\* C4: whenever the part117 rules are evaluated, the verdict carries one
\* blocking 117.25(b) violation, and is illegal, exactly when the rest from
\* stateEndUtc to the proposed start is shorter than 12 hours for a crew
\* member with 3 or more consecutive duty days and than 10 hours otherwise;
\* a negative rest is such a violation
C4_RestCheck ==
  LET found == violationsCiting("117.25(b)",
                                "Insufficient rest period between duties")
  IN  EvaluatedPart117 =>
        /\ Len(found) = Count(RestTooShort)
        /\ RestTooShort =>
             /\ found[1].severity = "blocking"
             /\ found[1].currentValue
                  = response.proposedDuty.startTimeUtc
                      - response.crewState.stateEndUtc
             /\ found[1].limitValue
                  = (IF response.crewState.consecutiveDutyDays >= 3
                     THEN Hours(12) ELSE Hours(10))
             /\ ~response.result.isLegal

\* a rest of 11 hours that is the only failure of a crew member with 3
\* consecutive duty days
C4_Witness ==
  /\ EvaluatedPart117
  /\ response.crewState.consecutiveDutyDays = 3
  /\ response.crewState.stateEndUtc # NaN
  /\ response.proposedDuty.startTimeUtc - response.crewState.stateEndUtc
       = Hours(11)
  /\ Len(response.result.violations) = 1
  /\ response.result.violations[1].rule = "117.25(b)"
  /\ ~response.result.isLegal

\* C5: whenever the part117 rules are evaluated, the verdict carries one
\* blocking 28-day violation exactly when flightHoursMonth plus the proposed
\* flight hours exceeds 100, and one blocking 365-day violation exactly when
\* flightHoursYear plus the proposed flight hours exceeds 1000; either one
\* makes the verdict illegal, and a total equal to the cap yields neither
C5_CumulativeCaps ==
  LET month == violationsCiting("117.23(b)",
                 "28-day flight hour limit would be exceeded")
      year == violationsCiting("117.23(b)",
                "365-day flight hour limit would be exceeded")
  IN  EvaluatedPart117 =>
        /\ Len(month) = Count(Over28Days)
        /\ Len(year) = Count(Over365Days)
        /\ Over28Days =>
             /\ month[1].severity = "blocking"
             /\ month[1].limitValue = Hours(100)
             /\ ~response.result.isLegal
        /\ Over365Days =>
             /\ year[1].severity = "blocking"
             /\ year[1].limitValue = Hours(1000)
             /\ ~response.result.isLegal

\* a verdict that is illegal for the 28-day cap alone, passed by half an hour
C5_Witness ==
  /\ EvaluatedPart117
  /\ response.crewState.flightHoursMonth
       + response.proposedDuty.totalFlightHours = Hours(100) + 1
  /\ ~DutyTooLong /\ ~FlightTooLong /\ ~RestTooShort /\ ~Over365Days
  /\ Len(response.result.violations) = 1
  /\ ~response.result.isLegal

\* C6: whenever the part117 rules are evaluated, the violations list holds
\* exactly one violation for each of the five rules that is failed and none
\* for a rule that is passed, so its length is the number of failed rules
C6_NoShortCircuit ==
  EvaluatedPart117 =>
    /\ Len(violationsCiting("117.25(d)",
             "Flight duty period exceeds maximum allowed"))
         = Count(DutyTooLong)
    /\ Len(violationsCiting("117.11(a)",
             "Flight time within duty period exceeds maximum"))
         = Count(FlightTooLong)
    /\ Len(violationsCiting("117.25(b)",
             "Insufficient rest period between duties"))
         = Count(RestTooShort)
    /\ Len(violationsCiting("117.23(b)",
             "28-day flight hour limit would be exceeded"))
         = Count(Over28Days)
    /\ Len(violationsCiting("117.23(b)",
             "365-day flight hour limit would be exceeded"))
         = Count(Over365Days)
    /\ Len(response.result.violations)
         = Count(DutyTooLong) + Count(FlightTooLong) + Count(RestTooShort)
           + Count(Over28Days) + Count(Over365Days)

\* all five rules failed at once, five violations reported
C6_Witness ==
  /\ EvaluatedPart117
  /\ DutyTooLong /\ FlightTooLong /\ RestTooShort
  /\ Over28Days /\ Over365Days
  /\ Len(response.result.violations) = 5

\* C7: for every input, every warning of the verdict has severity warning or
\* advisory, no violation is a fatigue finding, and a verdict is illegal only
\* if one of the five regulatory rules is failed
C7_FatigueNeverBlocks ==
  Validated =>
    /\ \A i \in 1..Len(response.result.warnings) :
         response.result.warnings[i].severity \in {"warning", "advisory"}
    /\ \A i \in 1..Len(response.result.violations) :
         /\ response.result.violations[i].category # "fatigue_risk"
         /\ response.result.violations[i].rule
              \notin {"FRMS_WOCL", "FRMS_CONSECUTIVE_DUTY", "FRMS_LONG_DUTY"}
    /\ ~response.result.isLegal =>
         (DutyTooLong \/ FlightTooLong \/ RestTooShort
            \/ Over28Days \/ Over365Days)

\* a start in the circadian low, 5 consecutive duty days and an 11.5-hour
\* duty: three fatigue findings and a legal verdict
C7_Witness ==
  /\ Validated
  /\ getUTCHours(response.proposedDuty.startTimeUtc) = 2
  /\ response.crewState.consecutiveDutyDays = 5
  /\ response.proposedDuty.totalDutyHours = Hours(11) + 1
  /\ Len(response.result.warnings) = 3
  /\ response.result.isLegal

\* the names of a category list that validateDuty has rules for
knownCategories(list) ==
  SelectSeq(list, LAMBDA c : c \in {"part117", "fatigue_risk"})

\* C15: for every crew state, duty period and category list, validateDuty
\* returns a verdict, without error, whose isLegal, violations and warnings
\* are those it returns for the list without the names other than part117
\* and fatigue_risk
C15_UnknownCategoriesIgnored ==
  Validated =>
    LET alone == validateDuty(response.crewState, response.proposedDuty,
                              knownCategories(response.checkCategories))
    IN  /\ "error" \notin DOMAIN response.result
        /\ response.result.isLegal = alone.isLegal
        /\ response.result.violations = alone.violations
        /\ response.result.warnings = alone.warnings

\* a legal verdict with warnings for a list that names cba between
\* fatigue_risk and part117
C15_Witness ==
  /\ Validated
  /\ response.checkCategories = <<"fatigue_risk", "cba", "part117">>
  /\ response.result.isLegal
  /\ response.result.warnings # << >>
  /\ response.result
       = [validateDuty(response.crewState, response.proposedDuty,
                       <<"fatigue_risk", "part117">>)
            EXCEPT !.checksPerformed = response.checkCategories]

----------------------------------------------------------------------------
(* Properties of CrewStateService.findReplacementCrew, checked under Spec *)

\* findReplacementCrew has returned
Found == response.op = "findReplacementCrew"

\* every legal candidate of the request, in Map order, before sort and slice
allLegal ==
  candidatesOf(reservesFor(crewStates, crewMembers, response.params),
               crewMembers, response.params.departureTimeUtc)

\* the employee ids of a list of candidates
idsOf(list) == {list[i].employeeId : i \in 1..Len(list)}

\* C8: after any sequence of store updates and swaps, every candidate
\* returned is a crew member whose current state is RESERVE, whose base and
\* position are the requested ones, who is qualified on the requested
\* aircraft type and whose verdict is legal
C8_CandidatesAreLegalReserves ==
  Found =>
    \A i \in 1..Len(response.result) :
      LET c == response.result[i]
          state == getCrewStatus(crewStates, c.employeeId)
      IN  /\ state # Null
          /\ state.stateType = "RESERVE"
          /\ state.stateType \notin {"DUTY", "REST", "OFF", "SICK", "VACATION"}
          /\ c.employeeId \in DOMAIN crewMembers
          /\ crewMembers[c.employeeId].base = response.params.base
          /\ crewMembers[c.employeeId].position = response.params.position
          /\ response.params.aircraftType
               \in crewMembers[c.employeeId].aircraftTypes
          /\ c.legality.isLegal

\* a candidate returned after it was swapped onto a flight and off it again,
\* while another crew member is on duty
C8_Witness ==
  /\ Found
  /\ \E i \in 1..Len(response.result) :
       "reportTimeUtc"
         \in DOMAIN getCrewStatus(crewStates, response.result[i].employeeId)
  /\ \E j \in 1..Len(crewStates) : crewStates[j].stateType = "DUTY"

\* C9: with M legal candidates and maxResults N >= 0 (5 when not given), the
\* result holds min(N, M) of them, each once, in non-increasing rankScore
\* order, and no legal candidate left out scores higher than one returned
C9_TopNDescending ==
  (Found /\ maxResultsOf(response.params) >= 0) =>
    /\ Len(response.result)
         = Min(maxResultsOf(response.params), Len(allLegal))
    /\ idsOf(response.result) \subseteq idsOf(allLegal)
    /\ Cardinality(idsOf(response.result)) = Len(response.result)
    /\ \A i \in 1..Len(response.result) :
         \E k \in 1..Len(allLegal) : allLegal[k] = response.result[i]
    /\ \A i, j \in 1..Len(response.result) :
         i < j => response.result[i].rankScore >= response.result[j].rankScore
    /\ \A k \in 1..Len(allLegal) :
         allLegal[k].employeeId \notin idsOf(response.result) =>
           \A i \in 1..Len(response.result) :
             response.result[i].rankScore >= allLegal[k].rankScore

\* two of three legal candidates returned, the lowest score left out, where
\* Map order is not score order
C9_Witness ==
  /\ Found
  /\ "maxResults" \in DOMAIN response.params
  /\ response.params.maxResults = 2
  /\ Len(allLegal) = 3
  /\ Len(response.result) = 2
  /\ response.result[1].rankScore > response.result[2].rankScore
  /\ allLegal[1].employeeId \notin idsOf(response.result)

\* C10: candidates of equal rankScore are listed by ascending employeeId,
\* and of tied candidates the ones with the lower employeeId are returned
C10_TiesByAscendingId ==
  Found =>
    /\ \A i, j \in 1..Len(response.result) :
         (i < j /\ response.result[i].rankScore = response.result[j].rankScore)
           => response.result[i].employeeId < response.result[j].employeeId
    /\ \A k \in 1..Len(allLegal) :
         allLegal[k].employeeId \notin idsOf(response.result) =>
           \A i \in 1..Len(response.result) :
             response.result[i].rankScore = allLegal[k].rankScore
               => response.result[i].employeeId < allLegal[k].employeeId

\* the find-replacement-crew tool has returned
ToolFound == response.op = "findReplacementCrewTool"

\* the reserves that pass the filter of the tool's request, in Map order
toolReserves == reservesFor(crewStates, crewMembers, response.input)

\* every legal candidate of the tool's request, in Map order
toolLegal ==
  candidatesOf(toolReserves, crewMembers, response.input.departureTimeUtc)

\* the tool returned a candidate list, not an error result
toolReturnedList ==
  /\ "error" \notin DOMAIN response.result
  /\ "candidates" \in DOMAIN response.result

\* C11: a search in which no reserve passes the filter (the pool is empty or
\* nobody matches), whatever the departure time, and a search for a departure
\* instant in which no matching reserve is legal, returns an empty candidate
\* list: the tool returns a result without error flag whose candidates, the
\* list the service returned, are empty
C11_NoCandidatesIsNotAnError ==
  /\ (ToolFound /\ toolReserves = << >>) =>
        /\ toolReturnedList
        /\ response.result.candidates = << >>
  /\ (ToolFound /\ getTime(response.input.departureTimeUtc) # NaN
         /\ toolLegal = << >>) =>
        /\ toolReturnedList
        /\ response.result.candidates = << >>

\* a search of the tool with a departure time that is not a date, in a store
\* that holds reserves of which none passes the filter: an empty list and no
\* error
C11_Witness ==
  /\ ToolFound
  /\ getTime(response.input.departureTimeUtc) = NaN
  /\ getCrewByState(crewStates, "RESERVE") # << >>
  /\ toolReserves = << >>
  /\ toolReturnedList
  /\ response.result.candidates = << >>
  /\ response.result.searchMetadata.legalCount = 0

----------------------------------------------------------------------------
(* Properties of the two rankers, checked under SpecRanking *)

\* CrewStateService.calculateRankScore has returned
Ranked == response.op = "calculateRankScore"

\* calculateRankScore of optimize-reserve-callout has returned
RankedCallout == response.op = "calculateCalloutRankScore"

\* C12: every score of the replacement ranker lies in [0, 100], and every
\* score of the call-out ranker, for each strategy, lies in [0, 100] (counted
\* in 64ths of a point), whatever the warnings, cost, duty hours, consecutive
\* days, utilization, fatigue and availability
C12_ScoreWithinBounds ==
  /\ Ranked => (response.result >= 0 /\ response.result <= 100)
  /\ RankedCallout =>
        (response.result >= 0 /\ response.result <= Points(100))

\* a call-out score whose terms sum to less than zero, returned as 0
C12_Witness ==
  /\ RankedCallout
  /\ calloutScoreOf(response.metrics, response.priorityFactor) < 0
  /\ response.result = 0

----------------------------------------------------------------------------
(* Properties of the tools, checked under SpecTools *)

\* optimizeReserveCallout has returned a ranking
Optimized ==
  /\ response.op = "optimizeReserveCallout"
  /\ "recommendations" \in DOMAIN response.result

\* the employee ids and scores of a list of ranked records, in its order
rankingOf(list) ==
  [i \in 1..Len(list) |-> <<list[i].employeeId, list[i].rankScore>>]

\* C14: for the same store, request and strategy, a ranker returns the same
\* order and the same scores at whatever time it runs: the ranking
\* optimizeReserveCallout returned is the one it returns at every instant of
\* the clock, and so is the ranking of the replacement search
C14_RankingIndependentOfClock ==
  /\ Optimized =>
        \A now \in Clock :
          rankingOf(optimizeReserveCallout(crewStates, crewMembers,
                                           response.input,
                                           now).recommendations)
            = rankingOf(response.result.recommendations)
  /\ (ToolFound /\ toolReturnedList) =>
        rankingOf(findReplacementCrewTool(crewStates, crewMembers,
                                          response.input).candidates)
          = rankingOf(response.result.candidates)

\* executeCrewSwap is returning in this step
Swapping == response'.op = "executeCrewSwap"

\* executeCrewSwap has returned
Swapped == response.op = "executeCrewSwap"

\* the result is a structured error: the flag and a message
isErrorResult(result) ==
  /\ "error" \in DOMAIN result
  /\ result.error = TRUE
  /\ "message" \in DOMAIN result

\* C16: a crew id without stored state raises no fault: getCrewStatus
\* returns null for it, and validateCrewLegality, getCrewStatusRealtime and
\* executeCrewSwap called with it (for a swap, as either id) return a result
\* with error = true and a message, and leave both Maps as they were
C16_UnknownIdIsStructuredError ==
  [][ /\ \A id \in EmployeeIds :
           (\A i \in 1..Len(crewStates) : crewStates[i].employeeId # id)
             => getCrewStatus(crewStates, id) = Null
      /\ ( /\ response'.op = "validateCrewLegality"
           /\ getCrewStatus(crewStates, response'.input.employeeId) = Null )
         => ( /\ isErrorResult(response'.result)
              /\ UNCHANGED <<crewStates, crewMembers>> )
      /\ ( /\ response'.op = "getCrewStatusRealtime"
           /\ "employeeId" \in DOMAIN response'.input
           /\ getCrewStatus(crewStates, response'.input.employeeId) = Null )
         => ( /\ isErrorResult(response'.result)
              /\ UNCHANGED <<crewStates, crewMembers>> )
      /\ ( /\ Swapping
           /\ \/ getCrewStatus(crewStates,
                                response'.input.originalCrewId) = Null
              \/ getCrewStatus(crewStates,
                                response'.input.replacementCrewId) = Null )
         => ( /\ isErrorResult(response'.result)
              /\ UNCHANGED <<crewStates, crewMembers>> )
    ]_vars

\* a swap, not a dry run, that named a member on duty and an incoming id
\* without state: an error result, and the member is still on duty
C16_Witness ==
  /\ Swapped
  /\ ~response.input.dryRun
  /\ getCrewStatus(crewStates, response.input.replacementCrewId) = Null
  /\ getCrewStatus(crewStates, response.input.originalCrewId) # Null
  /\ getCrewStatus(crewStates, response.input.originalCrewId).stateType
       = "DUTY"
  /\ isErrorResult(response.result)

\* the swap that is returning was executed, not refused and not a dry run
Completing ==
  /\ Swapping
  /\ "status" \in DOMAIN response'.result
  /\ response'.result.status = "completed"

\* C17: a swap is executed only when the outgoing member's state was DUTY
\* and the incoming member's state was RESERVE, so the only changes of state
\* type ever written are DUTY to RESERVE and RESERVE to DUTY
C17_SwapOnlyDutyForReserve ==
  [][ Completing =>
        /\ getCrewStatus(crewStates,
                         response'.input.originalCrewId).stateType = "DUTY"
        /\ getCrewStatus(crewStates,
                         response'.input.replacementCrewId).stateType
             = "RESERVE"
        /\ \A id \in EmployeeIds :
             LET before == getCrewStatus(crewStates, id)
                 after == getCrewStatus(crewStates', id)
             IN  (before # Null /\ after.stateType # before.stateType)
                   => <<before.stateType, after.stateType>>
                        \in {<<"DUTY", "RESERVE">>, <<"RESERVE", "DUTY">>}
    ]_vars

\* the operations that answer a question
QueryOps ==
  {"validateCrewLegality", "findReplacementCrewTool",
   "optimizeReserveCallout", "getCrewStatusRealtime", "getReservePoolStatus"}

\* C19: validateCrewLegality, findReplacementCrew, optimizeReserveCallout,
\* getCrewStatusRealtime and getReservePoolStatus leave the store and the
\* profiles as they were; once startup has loaded the records, a stored
\* DutyState changes only in a step of executeCrewSwap that completes
C19_QueriesHaveNoSideEffects ==
  [][ /\ response'.op \in QueryOps
           => UNCHANGED <<crewStates, crewMembers>>
      /\ crewStates' # crewStates => Completing
      /\ crewMembers' = crewMembers
    ]_vars

\* optimizeReserveCallout has ranked at least one reserve, one of them a
\* member an earlier swap moved from DUTY to the pool, and the store still
\* holds that member as RESERVE
C19_Witness ==
  /\ Optimized
  /\ "recommendations" \in DOMAIN response.result
  /\ \E i \in 1..Len(response.result.recommendations) :
       LET state == getCrewStatus(crewStates,
                      response.result.recommendations[i].employeeId)
       IN  /\ state.stateType = "RESERVE"
           /\ "lastWoclExposure" \in DOMAIN state

\* C20: executeCrewSwap with dryRun = true and both ids known returns status
\* 'pending' with the four changes a real swap would make (the outgoing
\* assignment deleted, the incoming one created, the outgoing state updated
\* to RESERVE and the incoming one to DUTY) and writes nothing to the store
C20_DryRunLeavesStoreUnchanged ==
  [][ /\ (Swapping /\ response'.input.dryRun)
           => UNCHANGED <<crewStates, crewMembers>>
      /\ ( /\ Swapping
           /\ response'.input.dryRun
           /\ getCrewStatus(crewStates,
                            response'.input.originalCrewId) # Null
           /\ getCrewStatus(crewStates,
                            response'.input.replacementCrewId) # Null )
         => LET input == response'.input
                result == response'.result
            IN  /\ "status" \in DOMAIN result
                /\ result.status = "pending"
                /\ result.dryRun = TRUE
                /\ Len(result.changes) = 4
                /\ result.changes[1].action = "delete"
                /\ result.changes[2].action = "create"
                /\ result.changes[3].entityId = <<input.originalCrewId>>
                /\ result.changes[3].afterState.stateType = "RESERVE"
                /\ result.changes[4].entityId = <<input.replacementCrewId>>
                /\ result.changes[4].afterState.stateType = "DUTY"
    ]_vars

\* a dry run of a swap between a member on duty and a reserve has returned
\* 'pending', and the two are still on duty and in reserve
C20_Witness ==
  /\ Swapped
  /\ response.input.dryRun
  /\ "status" \in DOMAIN response.result
  /\ response.result.status = "pending"
  /\ response.input.originalCrewId # response.input.replacementCrewId
  /\ getCrewStatus(crewStates, response.input.originalCrewId) # Null
  /\ getCrewStatus(crewStates, response.input.originalCrewId).stateType
       = "DUTY"
  /\ getCrewStatus(crewStates, response.input.replacementCrewId) # Null
  /\ getCrewStatus(crewStates, response.input.replacementCrewId).stateType
       = "RESERVE"

----------------------------------------------------------------------------
(* Properties of concurrent swaps, checked under SpecConcurrent *)

\* both calls have returned
BothReturned ==
  /\ response.op = "concurrentSwaps"
  /\ \A i \in 1..2 : response.calls[i].pc = "done"

\* the store after the swap first and then the swap second, run on states
inOrder(states, first, second) ==
  executeCrewSwapStates(executeCrewSwapStates(states, first), second)

\* C18: two executeCrewSwap calls issued concurrently that name a common
\* crew id leave the store as the two swaps run one after the other, in one
\* of the two orders, would leave it: no update is lost or half applied
C18_ConcurrentSwapsSerializable ==
  BothReturned =>
    LET a == response.calls[1].input
        b == response.calls[2].input
    IN  \/ crewStates = inOrder(response.issuedOn, a, b)
        \/ crewStates = inOrder(response.issuedOn, b, a)

\* two swaps, neither a dry run, have both returned: the first moved a
\* reserve onto the flight, the second took the same member off it again,
\* the two orders would leave different stores, and the store is the one
\* of the order in which the calls ran
C18_Witness ==
  /\ BothReturned
  /\ LET a == response.calls[1].input
         b == response.calls[2].input
     IN  /\ ~a.dryRun /\ ~b.dryRun
         /\ a.replacementCrewId = b.originalCrewId
         /\ a.originalCrewId # a.replacementCrewId
         /\ b.originalCrewId # b.replacementCrewId
         /\ response.calls[1].replacementCrew # Null
         /\ response.calls[2].replacementCrew # Null
         /\ response.calls[1].originalCrew # Null
         /\ inOrder(response.issuedOn, a, b)
              # inOrder(response.issuedOn, b, a)
         /\ crewStates # response.issuedOn

----------------------------------------------------------------------------
(* Properties of the replacement search, checked under SpecTools *)

\* the find-replacement-crew tool has returned a list of candidates
ToolListed == ToolFound /\ "candidates" \in DOMAIN response.result

\* C21: when includeDeadheadOptions is false, every candidate the search
\* returns is already at the requested base: the currentLocation of its
\* stored state, which the candidate reports, is the base
C21_NoDeadheadMeansAtBase ==
  (ToolListed /\ ~includeDeadheadOptionsOf(response.input)) =>
    \A i \in 1..Len(response.result.candidates) :
      LET c == response.result.candidates[i]
      IN  /\ getCrewStatus(crewStates, c.employeeId).currentLocation
               = response.input.base
          /\ c.logistics.currentLocation = response.input.base

\* validateCrewLegality has returned
LegalityQueried == response.op = "validateCrewLegality"

\* the proposed duty of the query ends before it starts
EndsBeforeStart ==
  Less(getTime(response.input.proposedDuty.endTimeUtc),
       getTime(response.input.proposedDuty.startTimeUtc))

\* C22: a legality query whose proposed endTimeUtc is earlier than its
\* startTimeUtc is rejected before evaluation: validateCrewLegality returns
\* an error result, and never a verdict with isLegal = true
C22_ReversedTimesRejected ==
  (LegalityQueried /\ EndsBeforeStart) =>
    /\ isErrorResult(response.result)
    /\ ~response.result.isLegal

----------------------------------------------------------------------------
(* Further properties of CrewStateService.findReplacementCrew, checked *)
(* under Spec                                                          *)

\* the stored state carries an end of state that is not a valid instant
malformedEnd(state) == getTime(state.stateEndUtc) = NaN

\* C23: in a replacement search, a reserve whose stored stateEndUtc is not
\* a valid instant is left out of the candidates, and the rest of the pool
\* is evaluated all the same: when the result is not cut by maxResults,
\* every other reserve that matches the request and is legal is returned
C23_MalformedReserveIsolated ==
  Found =>
    /\ \A i \in 1..Len(response.result) :
         ~malformedEnd(getCrewStatus(crewStates,
                                     response.result[i].employeeId))
    /\ Len(response.result) < maxResultsOf(response.params)
         => \A j \in 1..Len(crewStates) :
              ( /\ crewStates[j].stateType = "RESERVE"
                /\ ~malformedEnd(crewStates[j])
                /\ matchesRequest(crewMembers, crewStates[j],
                                  response.params)
                /\ validateDuty(crewStates[j],
                                proposedDutyFor(
                                  response.params.departureTimeUtc),
                                <<"part117", "fatigue_risk">>).isLegal )
              => crewStates[j].employeeId \in idsOf(response.result)

\* the verdict findReplacementCrew obtains for a stored state and the
\* departure of the request
searchVerdict(state) ==
  validateDuty(state, proposedDutyFor(response.params.departureTimeUtc),
               <<"part117", "fatigue_risk">>)

AtLeast(a, b) == a # NaN /\ b # NaN /\ a >= b

\* C30: findReplacementCrew returns a reserve only if the requested
\* departure is at least the required rest (10 hours, or 12 hours from 3
\* consecutive duty days on) after the reserve's stateEndUtc, and only if
\* flightHoursMonth + 5 <= 100 and flightHoursYear + 5 <= 1000; a reserve
\* whose reserve window still covers the departure is never returned
C30_ReturnedOnlyIfRestedAndUnderCaps ==
  Found =>
    \A i \in 1..Len(response.result) :
      LET state == getCrewStatus(crewStates, response.result[i].employeeId)
          departure == getTime(response.params.departureTimeUtc)
      IN  /\ AtLeast(Minus(departure, getTime(state.stateEndUtc)),
                     IF state.consecutiveDutyDays >= 3
                     THEN Hours(12) ELSE Hours(10))
          /\ state.flightHoursMonth + Hours(5) <= Hours(100)
          /\ state.flightHoursYear + Hours(5) <= Hours(1000)
          /\ ~Less(departure, getTime(state.stateEndUtc))

\* the number of stored states of a crew id
statesOf(states, id) ==
  Cardinality({i \in 1..Len(states) : states[i].employeeId = id})

\* in this step the record of id, if it changes, is replaced by a whole
\* record: the one handed to updateCrewState, or the one executeCrewSwap
\* builds from the record it read
ReplacedWhole(id) ==
  LET before == getCrewStatus(crewStates, id)
      after == getCrewStatus(crewStates', id)
  IN  \/ after = before
      \/ response'.op = "none" /\ after \in StateInputs
      \/ /\ Completing
         /\ before # Null
         /\ \/ /\ id = response'.input.originalCrewId
               /\ id # response'.input.replacementCrewId
               /\ after = newOriginalState(before,
                                           response'.input.flightNumber)
            \/ /\ id = response'.input.replacementCrewId
               /\ after = newReplacementState(
                             before, response'.input.flightNumber,
                             response'.input.effectiveTimeUtc)

\* C24 as stated: after any sequence of addCrewMember, updateCrewState and
\* executeCrewSwap calls every registered crew member has exactly one
\* DutyState, and a transition replaces the member's record wholesale
C24_ExactlyOneStatePerMember ==
  [][ /\ \A id \in DOMAIN crewMembers' : statesOf(crewStates', id) = 1
      /\ \A id \in EmployeeIds : ReplacedWhole(id)
    ]_vars

\* C24: the store holds at most one DutyState per crew id (none for a
\* member registered before any state of theirs was stored), a stored
\* state is never removed, and a transition replaces the record wholesale
C24_AtMostOneStateReplacedWhole ==
  [][ /\ \A id \in EmployeeIds :
           /\ statesOf(crewStates', id) <= 1
           /\ statesOf(crewStates, id) <= statesOf(crewStates', id)
           /\ ReplacedWhole(id)
      /\ Len(crewStates') <= Cardinality(EmployeeIds)
    ]_vars

\* a registered member has no state yet, while the single state of another
\* one is the record a swap wrote when it put them on the flight
C24_Witness ==
  /\ \E id \in DOMAIN crewMembers : statesOf(crewStates, id) = 0
  /\ \E id \in DOMAIN crewMembers :
       /\ statesOf(crewStates, id) = 1
       /\ getCrewStatus(crewStates, id).assignedFlights = <<"AA1234">>
       /\ getCrewStatus(crewStates, id).stateType = "DUTY"
       /\ "reportTimeUtc" \in DOMAIN getCrewStatus(crewStates, id)

----------------------------------------------------------------------------
(* Properties of the circadian-low check, checked under SpecLegality *)

\* the time of day of an instant, in half hours after 00:00 UTC
timeOfDay(s) == s % Hours(24)

\* the proposed start falls within the window of the limits table
StartsInWindow ==
  /\ timeOfDay(response.proposedDuty.startTimeUtc) >= timeOfDay(woclStart)
  /\ timeOfDay(response.proposedDuty.startTimeUtc) <= timeOfDay(woclEnd)

\* the verdict carries the circadian-low warning
WoclWarned ==
  \E i \in 1..Len(response.result.warnings) :
    response.result.warnings[i].rule = "FRMS_WOCL"

\* C25: the circadian-low check belongs to the fatigue-risk category: for a
\* proposed start inside the window, validateDuty emits the FRMS_WOCL
\* warning if and only if fatigue_risk is among the requested categories,
\* whether or not part117 is requested
C25_WoclIsFatigueRiskCheck ==
  (Validated /\ StartsInWindow) =>
    (WoclWarned <=> Includes(response.checkCategories, "fatigue_risk"))

\* C26: with the check requested, the circadian-low warning is emitted
\* exactly when the time of day of the proposed start lies within the
\* window of the limits table, 02:00 to 06:00: a start before 02:00 or
\* after 06:00 yields no warning
C26_WoclWindowIsConfigured ==
  ( /\ Validated
    /\ Includes(response.checkCategories, "part117")
    /\ Includes(response.checkCategories, "fatigue_risk") )
  => (WoclWarned <=> StartsInWindow)

----------------------------------------------------------------------------
(* Properties of executeCrewSwap, checked under SpecTools *)

\* two records agree on every field outside the set changed
sameExcept(before, after, changed) ==
  /\ DOMAIN after \ changed = DOMAIN before \ changed
  /\ \A f \in DOMAIN before \ changed : after[f] = before[f]

C29_SameIdSwapEndsOnDuty ==
  [][ ( /\ Completing
        /\ response'.input.originalCrewId
             = response'.input.replacementCrewId )
      => LET input == response'.input
             before == getCrewStatus(crewStates, input.originalCrewId)
             after == getCrewStatus(crewStates', input.originalCrewId)
         IN  /\ after.stateType = "DUTY"
             /\ Includes(after.assignedFlights, input.flightNumber)
             /\ after.assignedFlights
                  = before.assignedFlights \o <<input.flightNumber>>
             /\ after.reportTimeUtc = input.effectiveTimeUtc
             /\ sameExcept(before, after,
                           {"stateType", "assignedFlights", "reportTimeUtc"})
             /\ \A j \in 1..Len(crewStates') :
                  crewStates'[j].employeeId = input.originalCrewId
                    => crewStates'[j].stateType # "RESERVE"
             /\ Len(crewStates') = Len(crewStates)
             /\ \A j \in 1..Len(crewStates) :
                  crewStates[j].employeeId # input.originalCrewId
                    => crewStates'[j] = crewStates[j]
    ]_vars

\* a swap naming the same member twice has completed, and that member is
\* on duty on the flight with the effective time as report time
C29_Witness ==
  /\ Swapped
  /\ "status" \in DOMAIN response.result
  /\ response.result.status = "completed"
  /\ response.input.originalCrewId = response.input.replacementCrewId
  /\ LET state == getCrewStatus(crewStates, response.input.originalCrewId)
     IN  /\ state.stateType = "DUTY"
         /\ state.assignedFlights = <<"AA1234">>
         /\ state.reportTimeUtc = response.input.effectiveTimeUtc

====
